---- MODULE Spec2Model ----
(***************************************************************************)
(* Client-side state reconciliation of the Botivate HR Support frontend:   *)
(* the approvals panel of the dashboard (optimistic remove / rollback),    *)
(* the chat page (requests, pending approvals, notifications), the role    *)
(* checks and the routes to the onboarding page.                           *)
(*                                                                         *)
(* A remote call is modelled in three steps: the handler issues it, the    *)
(* backend serves it (or the transport loses it), and the continuation of  *)
(* the awaiting handler runs with the response.  Handlers run to           *)
(* completion between two awaits, as JavaScript does.                      *)
(***************************************************************************)
EXTENDS Integers, Sequences, FiniteSets, Bags, TLC

\* ---------------------------------------------------------------- bounds
MaxCalls == 2        \* decide / markRead invocations per behaviour
MaxTabChanges == 3   \* tab changes of the chat page per behaviour
MaxMounts == 1       \* mounts of the approvals panel per behaviour
MaxNavigations == 2  \* navigations (a URL entered, a navigate() button) per behaviour
MaxInvocations == 2  \* submits of the login and onboarding pages per behaviour
MaxTicks == 2        \* ticks of the dashboard's poll interval per behaviour
MaxSends == 2        \* chat messages the user submits per behaviour

\* the requests the backend holds, in the order it lists them
ReqOrder == <<"req-1", "req-2">>
ReqIds == {ReqOrder[i] : i \in DOMAIN ReqOrder}
Decisions == {"approved", "rejected"}
Statuses == {"pending", "approved", "rejected", "escalated"}
Roles == {"employee", "manager", "hr", "admin", "ceo"}
NoUser == [role |-> "none"]
\* the roles a session is explored with
SessionRoles == {"employee", "manager"}

VARIABLES
  page,             \* the page component that is mounted
  user,             \* AuthContext: user
  tab,              \* ChatPage: 'chat' | 'requests' | 'notifications'
  tabChanges,       \* ChatPage: how many times the tab effect has run
  requests,         \* ChatPage: requests (the user's own)
  notifications,    \* ChatPage: notifications
  pendingApprovals, \* ChatPage: pendingApprovals
  cpFetches,        \* ChatPage: in-flight list calls of the tab effect (a bag)
  cpDecides,        \* ChatPage: in-flight approvalAPI.decide calls
  cpMarks,          \* ChatPage: in-flight notificationAPI.markRead calls
  userInfo,         \* DashboardPage: the stored user_info (its role)
  activeTab,        \* DashboardPage: 'chat' | 'approvals' | 'settings'
  apEpoch,          \* which mount of ApprovalsPanel is the live one
  apLoading,        \* ApprovalsPanel: loading
  pendingRequests,  \* ApprovalsPanel: pendingRequests
  apFetches,        \* in-flight GET /api/approvals/pending of the panel
  apDecides,        \* in-flight POST /api/approvals/{id}/decide of the panel
  nextCall,         \* number of the next decide invocation
  toasts,           \* the toasts emitted so far (a bag)
  srvReq,           \* backend: the requests (their status)
  srvMine,          \* backend: the ids of the requests the session user submitted
  srvNotifs,        \* backend: the session user's notifications
  navs,             \* how many navigations have happened
  loginLoading,     \* LoginPage: loading
  loginCalls,       \* in-flight authAPI.login calls
  step,             \* OnboardingPage: step (0 register, 1 policies, 2 database, 3 provision)
  companyId,        \* OnboardingPage: companyId
  obLoading,        \* OnboardingPage: loading
  policies,         \* OnboardingPage: policies
  databases,        \* OnboardingPage: databases
  provisionResult,  \* OnboardingPage: provisionResult
  obEpoch,          \* which mount of OnboardingPage is the live one
  invoked,          \* submits of the login and onboarding pages so far
  obCalls,          \* in-flight companyAPI calls (a bag)
  srvCompanies,     \* backend: how many companies are registered
  srvNextId,        \* backend: the id of the next policy / database row
  srvPolicies,      \* backend: the policies, [company, id]
  srvDatabases,     \* backend: the connected databases, [company, id]
  myRequests,       \* DashboardPage: myRequests
  dashNotifications,\* DashboardPage: notifications
  pollActive,       \* DashboardPage: the interval of the mount effect exists
  ticks,            \* how many times the interval has fired
  dpFetches,        \* in-flight fetchNotifications / fetchMyRequests calls (a bag)
  dpMarks,          \* in-flight POST /api/notifications/{id}/read of the dashboard
  messages,         \* DashboardPage: messages
  msgs,             \* ChatPage: msgs
  sent,             \* how many times send / handleSend has been invoked
  input,            \* ChatPage: input, the text box's content
  inputText,        \* DashboardPage: inputText
  sending,          \* ChatPage: sending
  isTyping,         \* DashboardPage: isTyping
  chatCalls         \* in-flight chat send calls (a bag)

dashVars == <<userInfo, activeTab>>
apVars == <<apEpoch, apLoading, pendingRequests, apFetches, apDecides>>
chatVars == <<user, tab, tabChanges, requests, notifications, pendingApprovals,
              cpFetches, cpDecides, cpMarks>>
loginVars == <<loginLoading, loginCalls>>
obVars == <<step, companyId, obLoading, policies, databases, provisionResult,
            obEpoch, obCalls>>
srvCompanyVars == <<srvCompanies, srvNextId, srvPolicies, srvDatabases>>
routeVars == <<navs, invoked, loginVars, obVars, srvCompanyVars>>
pollVars == <<myRequests, dashNotifications, pollActive, ticks, dpFetches, dpMarks>>
msgVars == <<messages, msgs, sent, input, inputText, sending, isTyping, chatCalls>>
vars == <<page, dashVars, apVars, chatVars, nextCall, toasts, srvReq, srvMine, srvNotifs,
          routeVars, pollVars, msgVars>>

\* what the backend's own steps leave alone
ClientVars == <<page, dashVars, apVars, chatVars, nextCall, toasts, pollVars, msgVars>>
\* what the dashboard and its approvals panel leave alone
DashFrame == <<page, chatVars, srvMine, srvNotifs, routeVars, pollVars, msgVars>>
\* what the chat page leaves alone
ChatFrame == <<page, dashVars, apVars, routeVars, pollVars, msgVars>>
\* what the routes, the login page and the onboarding page leave alone
RoutesFrame == <<dashVars, apVars, tab, tabChanges, requests, notifications,
                 pendingApprovals, cpFetches, cpDecides, cpMarks, nextCall,
                 srvReq, srvMine, srvNotifs, pollVars, msgVars>>

\* ------------------------------------------------------------ role checks
\* a role check that lets every logged-in user through
AnyLoggedInUser(u) == u # NoUser

\* AuthContext.isAuthority: user && [...].includes(user.role)
isAuthority(u) ==
  u # NoUser /\ u.role \in {"manager", "hr", "admin", "ceo"}

\* DashboardPage: the Approvals tab button is rendered for these roles
DashApprovalsTab(u) == u.role \in {"manager", "admin", "hr", "ceo"}

\* DashboardPage: the Settings tab button is rendered for these roles
DashSettingsTab(u) == u.role \in {"admin", "hr", "ceo", "manager"}

\* ---------------------------------------------------------------- backend
\* approvals.listPending(): the pending requests, one record per id
ListPending(srv) ==
  LET ids == SelectSeq(ReqOrder, LAMBDA i : srv[i].status = "pending")
  IN [k \in 1..Len(ids) |-> [id |-> ids[k], status |-> "pending"]]

\* approvals.listMine(): the session user's own requests, whatever their status
ListMine(srv, mine) ==
  LET ids == SelectSeq(ReqOrder, LAMBDA i : i \in mine)
  IN [k \in 1..Len(ids) |-> [id |-> ids[k], status |-> srv[ids[k]].status]]

\* notifications.markRead(id)
MarkReadAtBackend(list, id) ==
  [k \in 1..Len(list) |-> IF list[k].id = id THEN [list[k] EXCEPT !.is_read = TRUE]
                                              ELSE list[k]]

\* approvals.decide(id, outcome): applied to a pending request, Conflict otherwise
DecideAtBackend(srv, id, outcome) ==
  IF srv[id].status = "pending"
    THEN [resp |-> "ok", srv |-> [srv EXCEPT ![id].status = outcome]]
    ELSE [resp |-> "Conflict", srv |-> srv]

\* another actor (another manager, the backend's own automation) settles a request
OtherActorDecides(id, s) ==
  /\ srvReq[id].status = "pending"
  /\ s \in Statuses \ {"pending"}
  /\ srvReq' = [srvReq EXCEPT ![id].status = s]
  /\ UNCHANGED <<ClientVars, srvMine, srvNotifs, routeVars>>

\* ------------------------------------------------------- list operations
Ids(list) == {list[i].id : i \in 1..Len(list)}

\* prev.filter(req => req.id !== id)
WithoutId(list, id) == SelectSeq(list, LAMBDA r : r.id # id)

Records(list, id) == {list[i] : i \in {j \in 1..Len(list) : list[j].id = id}}

\* ----------------------------------------- DashboardPage / ApprovalsPanel
NoResp == [kind |-> "none", data |-> <<>>]

\* an awaited call settles: with the backend's response once the backend has
\* served it, or with a transport failure (the request or the response is
\* lost) at any time
Arrives(served, lost) == lost \/ served # "none"

\* what the handler of a decide call gets
Outcome(c, lost) == IF lost THEN "NetworkError" ELSE c.resp

apMounted == activeTab = "approvals"

\* the tab buttons: setActiveTab(t).  Rendering ApprovalsPanel mounts a new
\* instance (useState([]), useState(true), the mount effect's fetchApprovals);
\* leaving the tab unmounts it, and its state is gone.
SetActiveTab(t) ==
  /\ page = "dashboard"
  /\ t # activeTab
  /\ \/ t = "chat"
     \/ t = "approvals" /\ DashApprovalsTab(userInfo)
     \/ t = "settings" /\ DashSettingsTab(userInfo)
  /\ t = "approvals" => apEpoch < MaxMounts
  /\ activeTab' = t
  /\ pendingRequests' = <<>>
  /\ apLoading' = TRUE
  /\ IF t = "approvals"
       THEN /\ apEpoch' = apEpoch + 1
            /\ apFetches' = apFetches \cup {[epoch |-> apEpoch + 1, resp |-> NoResp]}
       ELSE UNCHANGED <<apEpoch, apFetches>>
  /\ UNCHANGED <<userInfo, apDecides, nextCall, toasts, srvReq, DashFrame>>

\* the backend answers GET /api/approvals/pending
ServePending(f) ==
  /\ f \in apFetches /\ f.resp.kind = "none"
  /\ apFetches' = (apFetches \ {f}) \cup
        {[f EXCEPT !.resp = [kind |-> "ok", data |-> ListPending(srvReq)]]}
  /\ UNCHANGED <<dashVars, apEpoch, apLoading, pendingRequests, apDecides,
                 nextCall, toasts, srvReq, DashFrame>>

FetchFailedToast == [kind |-> "error", text |-> <<"Could not load pending approvals">>, call |-> 0]

\* fetchApprovals after its await: setPendingRequests(res.data), or the catch's
\* toast; finally setLoading(false).  The setters of an unmounted instance do
\* nothing; the toast is global.
FetchApprovalsDone(f, lost) ==
  /\ f \in apFetches
  /\ Arrives(f.resp.kind, lost)
  /\ apFetches' = apFetches \ {f}
  /\ LET live == apMounted /\ f.epoch = apEpoch IN
     /\ pendingRequests' = IF live /\ ~lost THEN f.resp.data ELSE pendingRequests
     /\ apLoading' = IF live THEN FALSE ELSE apLoading
  /\ toasts' = IF lost THEN toasts (+) SetToBag({FetchFailedToast}) ELSE toasts
  /\ UNCHANGED <<dashVars, apEpoch, apDecides, nextCall, srvReq, DashFrame>>

\* ApprovalsPanel.handleDecision up to its await: the snapshot, the optimistic
\* removal, the POST.  The Approve / Reject buttons exist for the listed
\* requests once loading is over.
ApHandleDecision(id, status) ==
  /\ page = "dashboard" /\ apMounted /\ ~apLoading
  /\ id \in Ids(pendingRequests)
  /\ status \in Decisions
  /\ nextCall <= MaxCalls
  /\ LET originalRequests == pendingRequests IN
     /\ pendingRequests' = WithoutId(pendingRequests, id)
     /\ apDecides' = apDecides \cup
          {[call |-> nextCall, id |-> id, status |-> status,
            snap |-> originalRequests, epoch |-> apEpoch, resp |-> "none"]}
  /\ nextCall' = nextCall + 1
  /\ UNCHANGED <<dashVars, apEpoch, apLoading, apFetches, toasts, srvReq, DashFrame>>

\* the backend processes the POST
ServeDecide(c) ==
  /\ c \in apDecides /\ c.resp = "none"
  /\ LET r == DecideAtBackend(srvReq, c.id, c.status) IN
     /\ srvReq' = r.srv
     /\ apDecides' = (apDecides \ {c}) \cup {[c EXCEPT !.resp = r.resp]}
  /\ UNCHANGED <<dashVars, apEpoch, apLoading, pendingRequests, apFetches,
                 nextCall, toasts, DashFrame>>

ApSuccessToast(c) ==
  [kind |-> "success", text |-> <<"Request", c.status, "successfully!">>, call |-> c.call]

ApErrorToast(c) ==
  [kind |-> "error", text |-> <<"Failed to mark request as", c.status>>, call |-> c.call]

\* a catch block that puts nothing back
NoRollback(c, current) == current

\* a failure handler that puts the snapshot behind the current list
AppendSnapshot(c, current) == current \o c.snap

\* what the catch block puts back: setPendingRequests(originalRequests)
ApRollback(c, current) == c.snap

\* ApprovalsPanel.handleDecision after its await
ApDecisionDone(c, lost) ==
  /\ c \in apDecides
  /\ Arrives(c.resp, lost)
  /\ apDecides' = apDecides \ {c}
  /\ IF Outcome(c, lost) = "ok"
       THEN /\ toasts' = toasts (+) SetToBag({ApSuccessToast(c)})
            /\ UNCHANGED pendingRequests
       ELSE /\ toasts' = toasts (+) SetToBag({ApErrorToast(c)})
            /\ pendingRequests' = IF apMounted /\ c.epoch = apEpoch
                                    THEN ApRollback(c, pendingRequests)
                                    ELSE pendingRequests
  /\ UNCHANGED <<dashVars, apEpoch, apLoading, apFetches, nextCall, srvReq, DashFrame>>

\* ----------------------------------------------------------------- ChatPage
\* the effect on [tab], run by a SideBtn's setTab(t): the list calls of the tab
TabEffectCalls(t) ==
  (IF t = "requests"
     THEN {[kind |-> "mine", resp |-> NoResp]} \cup
          (IF isAuthority(user) THEN {[kind |-> "pending", resp |-> NoResp]} ELSE {})
     ELSE {}) \cup
  (IF t = "notifications" THEN {[kind |-> "notifs", resp |-> NoResp]} ELSE {})

SetTab(t) ==
  /\ page = "chat"
  /\ t # tab
  /\ tabChanges < MaxTabChanges
  /\ tab' = t
  /\ tabChanges' = tabChanges + 1
  /\ cpFetches' = cpFetches (+) SetToBag(TabEffectCalls(t))
  /\ UNCHANGED <<user, requests, notifications, pendingApprovals, cpDecides, cpMarks,
                 nextCall, toasts, srvReq, srvMine, srvNotifs, ChatFrame>>

\* the backend answers a list call of the chat page
ServeList(f) ==
  /\ f \in BagToSet(cpFetches) /\ f.resp.kind = "none"
  /\ LET data == CASE f.kind = "mine" -> ListMine(srvReq, srvMine)
                   [] f.kind = "pending" -> ListPending(srvReq)
                   [] f.kind = "notifs" -> srvNotifs
     IN cpFetches' = (cpFetches (-) SetToBag({f})) (+)
                      SetToBag({[f EXCEPT !.resp = [kind |-> "ok", data |-> data]]})
  /\ UNCHANGED <<user, tab, tabChanges, requests, notifications, pendingApprovals,
                 cpDecides, cpMarks, nextCall, toasts, srvReq, srvMine, srvNotifs, ChatFrame>>

\* approvalAPI.getMyRequests().then(r => setRequests(r.data)).catch(() => {})
GetMyRequestsDone(f, lost) ==
  /\ page = "chat"
  /\ f \in BagToSet(cpFetches) /\ f.kind = "mine"
  /\ Arrives(f.resp.kind, lost)
  /\ cpFetches' = cpFetches (-) SetToBag({f})
  /\ requests' = IF ~lost THEN f.resp.data ELSE requests
  /\ UNCHANGED <<user, tab, tabChanges, notifications, pendingApprovals,
                 cpDecides, cpMarks, nextCall, toasts, srvReq, srvMine, srvNotifs, ChatFrame>>

\* approvalAPI.getPending().then(r => setPendingApprovals(r.data)).catch(() => {})
GetPendingDone(f, lost) ==
  /\ page = "chat"
  /\ f \in BagToSet(cpFetches) /\ f.kind = "pending"
  /\ Arrives(f.resp.kind, lost)
  /\ cpFetches' = cpFetches (-) SetToBag({f})
  /\ pendingApprovals' = IF ~lost THEN f.resp.data ELSE pendingApprovals
  /\ UNCHANGED <<user, tab, tabChanges, requests, notifications,
                 cpDecides, cpMarks, nextCall, toasts, srvReq, srvMine, srvNotifs, ChatFrame>>

\* notificationAPI.getAll().then(r => setNotifications(r.data)).catch(() => {})
GetAllDone(f, lost) ==
  /\ page = "chat"
  /\ f \in BagToSet(cpFetches) /\ f.kind = "notifs"
  /\ Arrives(f.resp.kind, lost)
  /\ cpFetches' = cpFetches (-) SetToBag({f})
  /\ notifications' = IF ~lost THEN f.resp.data ELSE notifications
  /\ UNCHANGED <<user, tab, tabChanges, requests, pendingApprovals,
                 cpDecides, cpMarks, nextCall, toasts, srvReq, srvMine, srvNotifs, ChatFrame>>

\* decision buttons for every request, listed or not
AllRequestButtons(id) ==
  /\ tab = "requests"
  /\ isAuthority(user)

\* the Approve / Reject buttons are rendered on the requests tab, for an
\* authority, for each request of pendingApprovals
DecisionButtons(id) ==
  /\ tab = "requests"
  /\ isAuthority(user)
  /\ Len(pendingApprovals) > 0
  /\ id \in Ids(pendingApprovals)

\* ChatPage.handleDecision up to its await: approvalAPI.decide(id, ...)
HandleDecision(id, status) ==
  /\ page = "chat"
  /\ DecisionButtons(id)
  /\ status \in Decisions
  /\ nextCall <= MaxCalls
  /\ cpDecides' = cpDecides \cup
       {[call |-> nextCall, id |-> id, status |-> status, resp |-> "none"]}
  /\ nextCall' = nextCall + 1
  /\ UNCHANGED <<user, tab, tabChanges, requests, notifications, pendingApprovals,
                 cpFetches, cpMarks, toasts, srvReq, srvMine, srvNotifs, ChatFrame>>

CpServeDecide(c) ==
  /\ c \in cpDecides /\ c.resp = "none"
  /\ LET r == DecideAtBackend(srvReq, c.id, c.status) IN
     /\ srvReq' = r.srv
     /\ cpDecides' = (cpDecides \ {c}) \cup {[c EXCEPT !.resp = r.resp]}
  /\ UNCHANGED <<user, tab, tabChanges, requests, notifications, pendingApprovals,
                 cpFetches, cpMarks, nextCall, toasts, srvMine, srvNotifs, ChatFrame>>

CpSuccessToast(c) ==
  [kind |-> "success", text |-> <<"Request", c.status, "!">>, call |-> c.call]

CpErrorToast(c) ==
  [kind |-> "error", text |-> <<"Failed to process">>, call |-> c.call]

\* ChatPage.handleDecision after its await
DecisionDone(c, lost) ==
  /\ page = "chat"
  /\ c \in cpDecides
  /\ Arrives(c.resp, lost)
  /\ cpDecides' = cpDecides \ {c}
  /\ IF Outcome(c, lost) = "ok"
       THEN /\ toasts' = toasts (+) SetToBag({CpSuccessToast(c)})
            /\ pendingApprovals' = WithoutId(pendingApprovals, c.id)
       ELSE /\ toasts' = toasts (+) SetToBag({CpErrorToast(c)})
            /\ UNCHANGED pendingApprovals
  /\ UNCHANGED <<user, tab, tabChanges, requests, notifications,
                 cpFetches, cpMarks, nextCall, srvReq, srvMine, srvNotifs, ChatFrame>>

Unread(list) == {list[i].id : i \in {j \in 1..Len(list) : ~list[j].is_read}}

\* the onClick of a notification: if (!n.is_read) notificationAPI.markRead(n.id)
MarkReadClick(id) ==
  /\ page = "chat"
  /\ tab = "notifications"
  /\ id \in Unread(notifications)
  /\ nextCall <= MaxCalls
  /\ cpMarks' = cpMarks \cup {[call |-> nextCall, id |-> id, resp |-> "none"]}
  /\ nextCall' = nextCall + 1
  /\ UNCHANGED <<user, tab, tabChanges, requests, notifications, pendingApprovals,
                 cpFetches, cpDecides, toasts, srvReq, srvMine, srvNotifs, ChatFrame>>

ServeMarkRead(m) ==
  /\ m \in cpMarks /\ m.resp = "none"
  /\ srvNotifs' = MarkReadAtBackend(srvNotifs, m.id)
  /\ cpMarks' = (cpMarks \ {m}) \cup {[m EXCEPT !.resp = "ok"]}
  /\ UNCHANGED <<user, tab, tabChanges, requests, notifications, pendingApprovals,
                 cpFetches, cpDecides, nextCall, toasts, srvReq, srvMine, ChatFrame>>

\* a handler that flips is_read instead of setting it
ToggleRead(list, id) ==
  [k \in 1..Len(list) |-> IF list[k].id = id
                            THEN [list[k] EXCEPT !.is_read = ~list[k].is_read]
                            ELSE list[k]]

\* p.map(x => x.id === n.id ? { ...x, is_read: true } : x)
SetRead(list, id) ==
  [k \in 1..Len(list) |-> IF list[k].id = id THEN [list[k] EXCEPT !.is_read = TRUE]
                                              ELSE list[k]]

\* a continuation that shows the notification as read whatever came back
MarkReadDoneOptimistic(m, lost) ==
  /\ page = "chat"
  /\ m \in cpMarks
  /\ Arrives(m.resp, lost)
  /\ cpMarks' = cpMarks \ {m}
  /\ notifications' = SetRead(notifications, m.id)
  /\ UNCHANGED <<user, tab, tabChanges, requests, pendingApprovals,
                 cpFetches, cpDecides, nextCall, toasts, srvReq, srvMine, srvNotifs, ChatFrame>>

\* the .then of markRead; a rejection is not handled
MarkReadDone(m, lost) ==
  /\ page = "chat"
  /\ m \in cpMarks
  /\ Arrives(m.resp, lost)
  /\ cpMarks' = cpMarks \ {m}
  /\ notifications' = IF ~lost THEN SetRead(notifications, m.id) ELSE notifications
  /\ UNCHANGED <<user, tab, tabChanges, requests, pendingApprovals,
                 cpFetches, cpDecides, nextCall, toasts, srvReq, srvMine, srvNotifs, ChatFrame>>

\* ------------------------------------------------- routes and LoginPage
\* a role check that sends every logged-in user to the onboarding page
LandsOnOnboardingIfAuthority(u) == IF isAuthority(u) THEN "/onboarding" ELSE "/chat"

NoCompany == ""

\* user?.company_id || '' : every account belongs to the registered company co-1
CompanyOf(u) == IF u = NoUser THEN NoCompany ELSE "co-1"

Paths == {"/login", "/register", "/onboarding", "/chat", "/dashboard"}

\* the two routes that render OnboardingPage
ObPages == {"register", "onboarding"}

\* AppRoutes with Guard: the page a path renders for the AuthContext user
Route(path, u) ==
  CASE path = "/login" -> IF u # NoUser THEN "chat" ELSE "login"
    [] path = "/register" -> "register"
    [] path = "/onboarding" -> IF u # NoUser THEN "onboarding" ELSE "login"
    [] path = "/chat" -> IF u # NoUser THEN "chat" ELSE "login"
    [] OTHER -> IF u # NoUser THEN "chat" ELSE "login"

\* LoginPage.submit: where a fresh login is sent
LoginLanding(u) == IF u.role \in {"hr", "admin"} THEN "/onboarding" ELSE "/chat"

Toast(kind, text) == [kind |-> kind, text |-> <<text>>, call |-> 0]

\* a companyAPI call: the company and argument it names, who issued it, the
\* mount of OnboardingPage that awaits it; its response: the rows of a list
\* call (resp.data), the id of the company a register call created
ObCall(op, kind, cid, arg, u, epoch) ==
  [op |-> op, kind |-> kind, company |-> cid, arg |-> arg, by |-> u.role,
   epoch |-> epoch, resp |-> NoResp, registered |-> NoCompany, form |-> {}]

\* the effect on [companyId]: if (companyId) getPolicies, getDatabases
LoadEffectCalls(cid, u, epoch) ==
  IF cid # NoCompany
    THEN {ObCall("getPolicies", "load", cid, 0, u, epoch),
          ObCall("getDatabases", "load", cid, 0, u, epoch)}
    ELSE {}

\* the calls whose continuation can still do something once the page that
\* issued them is gone: the effect's list calls only set state, and swallow a
\* failure
Awaited(calls) ==
  LET keep == {c \in BagToSet(calls) : c.kind # "load"}
  IN [c \in keep |-> calls[c]]

\* the matched route renders page p for user u; inflight are the calls whose
\* handlers are still awaiting.  OnboardingPage is constructed anew.
Show(p, u, inflight) ==
  /\ page' = p
  /\ loginLoading' = FALSE
  /\ IF p \in ObPages
       THEN /\ step' = IF p = "register" THEN 0 ELSE 1
            /\ companyId' = CompanyOf(u)
            /\ obLoading' = FALSE
            /\ policies' = <<>>
            /\ databases' = <<>>
            /\ provisionResult' = "none"
            /\ obEpoch' = obEpoch + 1
            /\ obCalls' = inflight (+) SetToBag(LoadEffectCalls(CompanyOf(u), u, obEpoch + 1))
       ELSE /\ UNCHANGED <<step, companyId, obLoading, policies, databases,
                           provisionResult, obEpoch>>
            /\ obCalls' = inflight

\* a URL typed into the address bar: the app is loaded again, AuthProvider
\* restores the stored user, the handlers of the old document are gone
GoTo(path) ==
  /\ navs < MaxNavigations
  /\ navs' = navs + 1
  /\ loginCalls' = {}
  /\ Show(Route(path, user), user, EmptyBag)
  /\ UNCHANGED <<user, invoked, toasts, srvCompanyVars, RoutesFrame>>

\* a button that calls navigate(path)
NavigateTo(path, u) ==
  /\ navs < MaxNavigations
  /\ navs' = navs + 1
  /\ user' = u
  /\ Show(Route(path, u), u, Awaited(obCalls))
  /\ UNCHANGED <<invoked, loginCalls, toasts, srvCompanyVars, RoutesFrame>>

\* LoginPage: the "register" button
RegisterLink == page = "login" /\ NavigateTo("/register", user)

\* ChatPage: the Admin side button, rendered for an authority
AdminButton == page = "chat" /\ isAuthority(user) /\ NavigateTo("/onboarding", user)

\* ChatPage: the Logout side button: logout(); navigate('/login')
LogoutButton == page = "chat" /\ NavigateTo("/login", NoUser)

\* OnboardingPage: "Back to Chat", rendered when a user is logged in
BackToChat == page \in ObPages /\ user # NoUser /\ NavigateTo("/chat", user)

\* OnboardingPage: "Go to Chat Portal", rendered at step 3 with a result
GoToChatPortal ==
  /\ page \in ObPages /\ step = 3 /\ provisionResult # "none"
  /\ NavigateTo("/chat", user)

\* LoginPage.submit up to its await (the inputs are required, the button is
\* disabled while loading); r is the role of the account logging in
Submit(r) ==
  /\ page = "login" /\ ~loginLoading
  /\ invoked < MaxInvocations
  /\ invoked' = invoked + 1
  /\ loginLoading' = TRUE
  /\ loginCalls' = loginCalls \cup {[role |-> r, resp |-> "none"]}
  /\ UNCHANGED <<page, user, navs, toasts, obVars, srvCompanyVars, RoutesFrame>>

\* the backend answers authAPI.login
ServeLogin(c) ==
  /\ c \in loginCalls /\ c.resp = "none"
  /\ loginCalls' = (loginCalls \ {c}) \cup {[c EXCEPT !.resp = "ok"]}
  /\ UNCHANGED <<page, user, navs, invoked, loginLoading, toasts, obVars,
                 srvCompanyVars, RoutesFrame>>

\* AuthContext.login after its await (setUser), then LoginPage.submit: the
\* welcome toast and the navigation by role, or the catch's toast
LoginDone(c, lost) ==
  /\ c \in loginCalls
  /\ Arrives(c.resp, lost)
  /\ loginCalls' = loginCalls \ {c}
  /\ IF ~lost
       THEN LET u == [role |-> c.role] IN
            /\ user' = u
            /\ toasts' = toasts (+) SetToBag({Toast("success", "Welcome")})
            /\ Show(Route(LoginLanding(u), u), u, Awaited(obCalls))
       ELSE /\ toasts' = toasts (+) SetToBag({Toast("error", "Login failed")})
            /\ loginLoading' = FALSE
            /\ UNCHANGED <<page, user, obVars>>
  /\ UNCHANGED <<navs, invoked, srvCompanyVars, RoutesFrame>>

\* ----------------------------------------------------------- OnboardingPage
\* the company ids the backend hands out, in order; co-1 exists from the start
CompanyOrder == <<"co-1", "co-2", "co-3", "co-4", "co-5">>

\* the ids of a set of rows, in ascending order, one record per id
RowsOf(S) ==
  LET ids == {r.id : r \in S}
      q == CHOOSE f \in [1..Cardinality(ids) -> ids] :
             \A i, j \in 1..Cardinality(ids) : i < j => f[i] < f[j]
  IN [k \in 1..Cardinality(ids) |-> [id |-> q[k]]]

\* the backend's company API: the response data and the backend state after
\* serving call c
CompanyBackend(c, n, nid, pols, dbs) ==
  LET same == [data |-> <<>>, registered |-> NoCompany, companies |-> n, nextId |-> nid,
               policies |-> pols, databases |-> dbs]
  IN CASE c.op = "register" ->
            [same EXCEPT !.registered = CompanyOrder[n + 1], !.companies = n + 1]
       [] c.op = "addPolicy" ->
            [same EXCEPT !.policies = pols \cup {[company |-> c.company, id |-> nid]},
                         !.nextId = nid + 1]
       [] c.op = "deletePolicy" ->
            [same EXCEPT !.policies = pols \ {[company |-> c.company, id |-> c.arg]}]
       [] c.op = "addDatabase" ->
            [same EXCEPT !.databases = dbs \cup {[company |-> c.company, id |-> nid]},
                         !.nextId = nid + 1]
       [] c.op = "getPolicies" ->
            [same EXCEPT !.data = RowsOf({r \in pols : r.company = c.company})]
       [] c.op = "getDatabases" ->
            [same EXCEPT !.data = RowsOf({r \in dbs : r.company = c.company})]
       [] OTHER -> same

\* the setters of this call's OnboardingPage instance still have an effect
ObLive(c) == page \in ObPages /\ c.epoch = obEpoch

ObFrame == <<page, user, navs, loginVars, obEpoch, RoutesFrame>>

\* the backend answers a companyAPI call
ServeCompany(c) ==
  /\ c \in BagToSet(obCalls) /\ c.resp = NoResp
  /\ c.op = "register" => srvCompanies < Len(CompanyOrder)
  /\ LET r == CompanyBackend(c, srvCompanies, srvNextId, srvPolicies, srvDatabases) IN
     /\ srvCompanies' = r.companies
     /\ srvNextId' = r.nextId
     /\ srvPolicies' = r.policies
     /\ srvDatabases' = r.databases
     /\ obCalls' = (obCalls (-) SetToBag({c})) (+)
                     SetToBag({[c EXCEPT !.resp = [kind |-> "ok", data |-> r.data],
                                         !.registered = r.registered]})
  /\ UNCHANGED <<invoked, toasts, step, companyId, obLoading, policies, databases,
                 provisionResult, ObFrame>>

\* a handler of the page is invoked and awaits its first call
Invoke(op, kind, cid, arg) ==
  /\ page \in ObPages
  /\ invoked < MaxInvocations
  /\ invoked' = invoked + 1
  /\ obCalls' = obCalls (+) SetToBag({ObCall(op, kind, cid, arg, user, obEpoch)})
  /\ UNCHANGED <<toasts, step, companyId, policies, databases, provisionResult,
                 srvCompanyVars, ObFrame>>

\* a step indicator that lets every step be opened
SetStepUnguarded(i) ==
  /\ page \in ObPages
  /\ i \in 0..3 /\ i # step
  /\ step' = i
  /\ UNCHANGED <<invoked, toasts, companyId, obLoading, policies, databases,
                 provisionResult, obCalls, srvCompanyVars, ObFrame>>

\* the step indicator: (i === 0 || companyId) && setStep(i)
SetStep(i) ==
  /\ page \in ObPages
  /\ i \in 0..3 /\ i # step
  /\ i = 0 \/ companyId # NoCompany
  /\ step' = i
  /\ UNCHANGED <<invoked, toasts, companyId, obLoading, policies, databases,
                 provisionResult, obCalls, srvCompanyVars, ObFrame>>

\* the fields the register form marks with a star
RequiredFields == {"name", "hr_name", "hr_email"}

\* regForm at the time of the submit, as the set of starred fields that are
\* filled in: all of them, or none (the form as constructed)
RegForms == {RequiredFields, {}}

\* registerCompany up to its await: the form's inputs carry no required
\* attribute and the handler sends regForm as it is; the form's button is
\* disabled while loading
RegisterCompany(form) ==
  /\ step = 0 /\ ~obLoading
  /\ obLoading' = TRUE
  /\ page \in ObPages
  /\ invoked < MaxInvocations
  /\ invoked' = invoked + 1
  /\ obCalls' = obCalls (+)
       SetToBag({[ObCall("register", "", NoCompany, 0, user, obEpoch) EXCEPT !.form = form]})
  /\ UNCHANGED <<toasts, step, companyId, policies, databases, provisionResult,
                 srvCompanyVars, ObFrame>>

\* a registerCompany that reports the registration and moves on without
\* keeping the returned id
RegisterDoneWithoutCapture(c, lost) ==
  /\ c \in BagToSet(obCalls) /\ c.op = "register"
  /\ Arrives(c.resp.kind, lost)
  /\ obCalls' = obCalls (-) SetToBag({c})
  /\ toasts' = toasts (+) SetToBag({IF lost THEN Toast("error", "Registration failed")
                                            ELSE Toast("success", "Company registered!")})
  /\ step' = IF ~lost /\ ObLive(c) THEN 1 ELSE step
  /\ obLoading' = IF ObLive(c) THEN FALSE ELSE obLoading
  /\ UNCHANGED <<invoked, companyId, policies, databases, provisionResult,
                 srvCompanyVars, ObFrame>>

\* registerCompany after its await; setCompanyId runs the effect on [companyId]
RegisterDone(c, lost) ==
  /\ c \in BagToSet(obCalls) /\ c.op = "register"
  /\ Arrives(c.resp.kind, lost)
  /\ LET rest == obCalls (-) SetToBag({c})
         cid == c.registered
     IN IF ~lost
          THEN /\ toasts' = toasts (+) SetToBag({Toast("success", "Company registered!")})
               /\ IF ObLive(c)
                    THEN /\ companyId' = cid
                         /\ step' = 1
                         /\ obCalls' = rest (+)
                              (IF cid # companyId
                                 THEN SetToBag(LoadEffectCalls(cid, user, obEpoch))
                                 ELSE EmptyBag)
                    ELSE /\ obCalls' = rest
                         /\ UNCHANGED <<companyId, step>>
          ELSE /\ toasts' = toasts (+) SetToBag({Toast("error", "Registration failed")})
               /\ obCalls' = rest
               /\ UNCHANGED <<companyId, step>>
  /\ obLoading' = IF ObLive(c) THEN FALSE ELSE obLoading
  /\ UNCHANGED <<invoked, policies, databases, provisionResult, srvCompanyVars, ObFrame>>

\* the calls of the effect on [companyId]: .then(r => set...(r.data)).catch(() => {})
LoadDone(c, lost) ==
  /\ c \in BagToSet(obCalls) /\ c.kind = "load"
  /\ Arrives(c.resp.kind, lost)
  /\ obCalls' = obCalls (-) SetToBag({c})
  /\ policies' = IF c.op = "getPolicies" /\ ~lost /\ ObLive(c)
                   THEN c.resp.data ELSE policies
  /\ databases' = IF c.op = "getDatabases" /\ ~lost /\ ObLive(c)
                    THEN c.resp.data ELSE databases
  /\ UNCHANGED <<invoked, toasts, step, companyId, obLoading, provisionResult,
                 srvCompanyVars, ObFrame>>

\* addPolicy up to its first await: addTextPolicy or uploadDocPolicy
AddPolicy(policyType) ==
  /\ step = 1 /\ ~obLoading
  /\ policyType \in {"text", "document"}
  /\ obLoading' = TRUE
  /\ Invoke("addPolicy", policyType, companyId, 0)

\* addDatabase up to its first await
AddDatabase ==
  /\ step = 2 /\ ~obLoading
  /\ obLoading' = TRUE
  /\ Invoke("addDatabase", "", companyId, 0)

\* addPolicy / addDatabase after the first await: the success toast and the
\* second call (getPolicies / getDatabases), or the catch's toast and finally
AddDone(c, lost) ==
  /\ c \in BagToSet(obCalls) /\ c.op \in {"addPolicy", "addDatabase"}
  /\ Arrives(c.resp.kind, lost)
  /\ LET rest == obCalls (-) SetToBag({c})
         list == IF c.op = "addPolicy" THEN "getPolicies" ELSE "getDatabases"
         done == IF c.op = "addPolicy" THEN "Policy added!"
                                       ELSE "Database connected & schema analyzed!"
         failed == IF c.op = "addPolicy" THEN "Failed to add policy" ELSE "Failed"
     IN IF ~lost
          THEN /\ toasts' = toasts (+) SetToBag({Toast("success", done)})
               /\ obCalls' = rest (+) SetToBag({[c EXCEPT !.op = list, !.kind = "afterAdd",
                                                          !.resp = NoResp]})
               /\ UNCHANGED obLoading
          ELSE /\ toasts' = toasts (+) SetToBag({Toast("error", failed)})
               /\ obCalls' = rest
               /\ obLoading' = IF ObLive(c) THEN FALSE ELSE obLoading
  /\ UNCHANGED <<invoked, step, companyId, policies, databases, provisionResult,
                 srvCompanyVars, ObFrame>>

\* addPolicy / addDatabase after the second await: setPolicies(r.data) /
\* setDatabases(r.data), or the catch's toast; finally setLoading(false)
AfterAddDone(c, lost) ==
  /\ c \in BagToSet(obCalls) /\ c.kind = "afterAdd"
  /\ Arrives(c.resp.kind, lost)
  /\ obCalls' = obCalls (-) SetToBag({c})
  /\ policies' = IF c.op = "getPolicies" /\ ~lost /\ ObLive(c)
                   THEN c.resp.data ELSE policies
  /\ databases' = IF c.op = "getDatabases" /\ ~lost /\ ObLive(c)
                    THEN c.resp.data ELSE databases
  /\ toasts' = IF lost
                 THEN toasts (+) SetToBag({Toast("error",
                        IF c.op = "getPolicies" THEN "Failed to add policy" ELSE "Failed")})
                 ELSE toasts
  /\ obLoading' = IF ObLive(c) THEN FALSE ELSE obLoading
  /\ UNCHANGED <<invoked, step, companyId, provisionResult, srvCompanyVars, ObFrame>>

\* deletePolicy up to its await: the button of a listed policy
DeletePolicy(id) ==
  /\ step = 1
  /\ id \in Ids(policies)
  /\ UNCHANGED obLoading
  /\ Invoke("deletePolicy", "", companyId, id)

\* deletePolicy after its await
DeletePolicyDone(c, lost) ==
  /\ c \in BagToSet(obCalls) /\ c.op = "deletePolicy"
  /\ Arrives(c.resp.kind, lost)
  /\ obCalls' = obCalls (-) SetToBag({c})
  /\ policies' = IF ~lost /\ ObLive(c) THEN WithoutId(policies, c.arg) ELSE policies
  /\ toasts' = toasts (+) SetToBag({IF lost THEN Toast("error", "Failed")
                                            ELSE Toast("success", "Policy deleted")})
  /\ UNCHANGED <<invoked, step, companyId, obLoading, databases, provisionResult,
                 srvCompanyVars, ObFrame>>

\* a provision call for an id that no listed database has
ProvisionAny(dbId) ==
  /\ step = 2
  /\ obLoading' = TRUE
  /\ Invoke("provision", "", companyId, dbId)

\* a Provision button that is gone once any step has failed
ProvisionUnlessFailed(dbId) ==
  /\ \A t \in BagToSet(toasts) : t.kind # "error"
  /\ step = 2
  /\ dbId \in Ids(databases)
  /\ obLoading' = TRUE
  /\ Invoke("provision", "", companyId, dbId)

\* provisionEmployees up to its await: the Provision button of a listed database
ProvisionEmployees(dbId) ==
  /\ step = 2
  /\ dbId \in Ids(databases)
  /\ obLoading' = TRUE
  /\ Invoke("provision", "", companyId, dbId)

\* provisionEmployees after its await
ProvisionDone(c, lost) ==
  /\ c \in BagToSet(obCalls) /\ c.op = "provision"
  /\ Arrives(c.resp.kind, lost)
  /\ obCalls' = obCalls (-) SetToBag({c})
  /\ provisionResult' = IF ~lost /\ ObLive(c) THEN "sent" ELSE provisionResult
  /\ step' = IF ~lost /\ ObLive(c) THEN 3 ELSE step
  /\ toasts' = toasts (+) SetToBag({IF lost THEN Toast("error", "Provisioning failed")
                                    ELSE Toast("success", "Credentials sent to all employees!")})
  /\ obLoading' = IF ObLive(c) THEN FALSE ELSE obLoading
  /\ UNCHANGED <<invoked, companyId, policies, databases, srvCompanyVars, ObFrame>>

\* ------------------------------------------- DashboardPage: poll and chat
\* useState([{ id: 1, type: 'ai', text: 'Hello, Jane! ...' }])
InitialMessages == <<[type |-> "ai", text |-> <<"Hello, ", "Jane", "!">>, n |-> 0]>>

\* the stored user_info the mount effect may find: none, or a user with the
\* first name of employee_name
StoredUsers == {[role |-> "employee", name |-> "Jane"], [role |-> "employee", name |-> "Ravi"]}

\* 'Hello, ${parsed.employee_name.split(' ')[0]}! ...'
Greeting(u) == <<[type |-> "ai", text |-> <<"Hello, ", u.name, "!">>, n |-> 0]>>

\* fetchNotifications(token); fetchMyRequests(token)
RefreshCalls == {[kind |-> "notifs", resp |-> NoResp], [kind |-> "mine", resp |-> NoResp]}

\* what everything but the dashboard's header, poll and chat window keeps
PollFrame == <<activeTab, apVars, chatVars, srvReq, srvMine, routeVars, msgs, sent, input, inputText,
              sending, isTyping, chatCalls>>

\* the mount effect without a stored user_info: navigate('/login'); return
MountWithoutUser ==
  /\ page = "dashboard" /\ userInfo = NoUser /\ ~pollActive
  /\ page' = "login"
  /\ UNCHANGED <<userInfo, pollVars, messages, nextCall, toasts, srvNotifs, PollFrame>>

\* the mount effect with a stored user_info: setUserInfo, the greeting, the
\* first refresh and setInterval
MountEffect(stored) ==
  /\ page = "dashboard" /\ userInfo = NoUser /\ ~pollActive
  /\ userInfo' = stored
  /\ messages' = Greeting(stored)
  /\ dpFetches' = dpFetches (+) SetToBag(RefreshCalls)
  /\ pollActive' = TRUE
  /\ UNCHANGED <<page, myRequests, dashNotifications, ticks, dpMarks, nextCall, toasts,
                 srvNotifs, PollFrame>>

\* the interval fires: both refreshes are issued
PollTick ==
  /\ pollActive
  /\ ticks < MaxTicks
  /\ ticks' = ticks + 1
  /\ dpFetches' = dpFetches (+) SetToBag(RefreshCalls)
  /\ UNCHANGED <<page, userInfo, myRequests, dashNotifications, pollActive, dpMarks,
                 messages, nextCall, toasts, srvNotifs, PollFrame>>

\* the backend answers a list call of the dashboard
DpServeList(f) ==
  /\ f \in BagToSet(dpFetches) /\ f.resp.kind = "none"
  /\ LET data == IF f.kind = "mine" THEN ListMine(srvReq, srvMine) ELSE srvNotifs
     IN dpFetches' = (dpFetches (-) SetToBag({f})) (+)
                      SetToBag({[f EXCEPT !.resp = [kind |-> "ok", data |-> data]]})
  /\ UNCHANGED <<page, userInfo, myRequests, dashNotifications, pollActive, ticks, dpMarks,
                 messages, nextCall, toasts, srvNotifs, PollFrame>>

\* a catch block that empties the list
ClearOnError(list) == <<>>

\* catch (err) { console.error(err) }: the state is left as it is
OnFetchError(list) == list

\* a fetchNotifications whose failure also abandons the requests refreshes in
\* flight, as if both refreshes shared one try block
FetchNotificationsDoneCancelling(f, lost) ==
  /\ f \in BagToSet(dpFetches) /\ f.kind = "notifs"
  /\ Arrives(f.resp.kind, lost)
  /\ LET rest == dpFetches (-) SetToBag({f})
         keep == {g \in BagToSet(rest) : g.kind # "mine"}
     IN dpFetches' = IF lost THEN [g \in keep |-> rest[g]] ELSE rest
  /\ dashNotifications' = IF page # "dashboard" \/ lost THEN dashNotifications
                          ELSE f.resp.data
  /\ UNCHANGED <<page, userInfo, myRequests, pollActive, ticks, dpMarks,
                 messages, nextCall, toasts, srvNotifs, PollFrame>>

\* fetchNotifications: setNotifications(res.data)
FetchNotificationsDone(f, lost) ==
  /\ f \in BagToSet(dpFetches) /\ f.kind = "notifs"
  /\ Arrives(f.resp.kind, lost)
  /\ dpFetches' = dpFetches (-) SetToBag({f})
  /\ dashNotifications' = IF page # "dashboard" THEN dashNotifications
                          ELSE IF lost THEN OnFetchError(dashNotifications)
                          ELSE f.resp.data
  /\ UNCHANGED <<page, userInfo, myRequests, pollActive, ticks, dpMarks,
                 messages, nextCall, toasts, srvNotifs, PollFrame>>

\* fetchMyRequests: setMyRequests(res.data)
FetchMyRequestsDone(f, lost) ==
  /\ f \in BagToSet(dpFetches) /\ f.kind = "mine"
  /\ Arrives(f.resp.kind, lost)
  /\ dpFetches' = dpFetches (-) SetToBag({f})
  /\ myRequests' = IF page # "dashboard" THEN myRequests
                   ELSE IF lost THEN OnFetchError(myRequests)
                   ELSE f.resp.data
  /\ UNCHANGED <<page, userInfo, dashNotifications, pollActive, ticks, dpMarks,
                 messages, nextCall, toasts, srvNotifs, PollFrame>>

\* an onClick that marks whatever is clicked, read or not
MarkAsReadAny(id) ==
  /\ page = "dashboard"
  /\ id \in Ids(dashNotifications)
  /\ nextCall <= MaxCalls
  /\ dpMarks' = dpMarks \cup {[call |-> nextCall, id |-> id, resp |-> "none"]}
  /\ nextCall' = nextCall + 1
  /\ UNCHANGED <<page, userInfo, myRequests, dashNotifications, pollActive, ticks,
                 dpFetches, messages, toasts, srvNotifs, PollFrame>>

\* the onClick of a notification: !notif.is_read && markAsRead(notif.id)
MarkAsRead(id) ==
  /\ page = "dashboard"
  /\ id \in Unread(dashNotifications)
  /\ nextCall <= MaxCalls
  /\ dpMarks' = dpMarks \cup {[call |-> nextCall, id |-> id, resp |-> "none"]}
  /\ nextCall' = nextCall + 1
  /\ UNCHANGED <<page, userInfo, myRequests, dashNotifications, pollActive, ticks,
                 dpFetches, messages, toasts, srvNotifs, PollFrame>>

DpServeMarkRead(m) ==
  /\ m \in dpMarks /\ m.resp = "none"
  /\ srvNotifs' = MarkReadAtBackend(srvNotifs, m.id)
  /\ dpMarks' = (dpMarks \ {m}) \cup {[m EXCEPT !.resp = "ok"]}
  /\ UNCHANGED <<page, userInfo, myRequests, dashNotifications, pollActive, ticks,
                 dpFetches, messages, nextCall, toasts, PollFrame>>

\* markAsRead after the await: fetchNotifications(token); a failure is logged
MarkAsReadDone(m, lost) ==
  /\ m \in dpMarks
  /\ Arrives(m.resp, lost)
  /\ dpMarks' = dpMarks \ {m}
  /\ dpFetches' = IF lost THEN dpFetches
                  ELSE dpFetches (+) SetToBag({[kind |-> "notifs", resp |-> NoResp]})
  /\ UNCHANGED <<page, userInfo, myRequests, dashNotifications, pollActive, ticks,
                 messages, nextCall, toasts, srvNotifs, PollFrame>>

\* a cleanup that leaves the interval in place
KeepInterval(active) == active

\* the effect's cleanup: clearInterval(interval)
Cleanup(active) == FALSE

\* handleLogout: the toast, navigate('/login'); the page is unmounted
HandleLogout ==
  /\ page = "dashboard"
  /\ page' = "login"
  /\ toasts' = toasts (+) SetToBag({Toast("plain", "Logged out successfully")})
  /\ pollActive' = Cleanup(pollActive)
  /\ UNCHANGED <<userInfo, myRequests, dashNotifications, ticks, dpFetches, dpMarks,
                 messages, nextCall, srvNotifs, PollFrame>>

\* ------------------------------------------------------------ chat messages
\* a message is [role or type, text, n]: n is the submission it belongs to
\* (0: the greeting), which stands for what the user typed and when

\* a list update that puts the new message in front
PrependMsg(list, msg) == <<msg>> \o list

\* setMsgs(p => [...p, msg]) / setMessages(prev => [...prev, msg])
AppendMsg(list, msg) == Append(list, msg)

ChatCall(k, from) == [n |-> k, from |-> from, resp |-> "none"]

\* what everything but the two chat windows keeps
MsgFrame == <<page, dashVars, apVars, chatVars, nextCall, toasts, srvReq, srvMine,
             srvNotifs, routeVars, pollVars>>

\* what can be in a text box: a text is a sequence of characters
Inputs == {<<>>, <<" ">>, <<"a">>, <<" ", "a", " ">>}

\* a trim that removes nothing
NoTrim(s) == s

\* String.prototype.trim: the text without its leading and trailing blanks
RECURSIVE TrimLeft(_)
TrimLeft(s) == IF s # <<>> /\ Head(s) = " " THEN TrimLeft(Tail(s)) ELSE s

RECURSIVE TrimRight(_)
TrimRight(s) ==
  IF s # <<>> /\ s[Len(s)] = " " THEN TrimRight(SubSeq(s, 1, Len(s) - 1)) ELSE s

Trim(s) == TrimRight(TrimLeft(s))

\* ChatPage mount effect: send('hi')
ChatMountEffect ==
  /\ page = "chat" /\ msgs = <<>>
  /\ msgs' = AppendMsg(msgs, [role |-> "user", text |-> <<"h", "i">>, n |-> 0])
  /\ input' = <<>>
  /\ sending' = TRUE
  /\ chatCalls' = chatCalls (+) SetToBag({ChatCall(0, "chat")})
  /\ UNCHANGED <<messages, sent, inputText, isTyping, MsgFrame>>

\* ChatPage: the text box's onChange
SetInput(text) ==
  /\ page = "chat" /\ msgs # <<>>
  /\ input # text
  /\ input' = text
  /\ UNCHANGED <<messages, msgs, sent, inputText, sending, isTyping, chatCalls, MsgFrame>>

\* DashboardPage: the text area's onChange
SetInputText(text) ==
  /\ page = "dashboard" /\ userInfo # NoUser
  /\ inputText # text
  /\ inputText' = text
  /\ UNCHANGED <<messages, msgs, sent, input, sending, isTyping, chatCalls, MsgFrame>>

\* ChatPage.send() up to its await, from the button or the Enter key (the
\* key is not disabled by a blank input): returns at once if the trimmed
\* input is empty, else submits the trimmed input
Send ==
  /\ page = "chat" /\ msgs # <<>>
  /\ sent < MaxSends
  /\ sent' = sent + 1
  /\ LET msg == Trim(input) IN
       IF msg = <<>>
         THEN UNCHANGED <<msgs, input, sending, chatCalls>>
         ELSE /\ msgs' = AppendMsg(msgs, [role |-> "user", text |-> msg, n |-> sent + 1])
              /\ input' = <<>>
              /\ sending' = TRUE
              /\ chatCalls' = chatCalls (+) SetToBag({ChatCall(sent + 1, "chat")})
  /\ UNCHANGED <<messages, inputText, isTyping, MsgFrame>>

\* the backend answers a chat call
ServeChat(c) ==
  /\ c \in BagToSet(chatCalls) /\ c.resp = "none"
  /\ chatCalls' = (chatCalls (-) SetToBag({c})) (+) SetToBag({[c EXCEPT !.resp = "ok"]})
  /\ UNCHANGED <<messages, msgs, sent, input, inputText, sending, isTyping, MsgFrame>>

\* a send whose catch block appends nothing
SendDoneSilentFailure(c, lost) ==
  /\ c \in BagToSet(chatCalls) /\ c.from = "chat"
  /\ Arrives(c.resp, lost)
  /\ chatCalls' = chatCalls (-) SetToBag({c})
  /\ msgs' = IF page # "chat" \/ lost THEN msgs
             ELSE AppendMsg(msgs, [role |-> "ai", n |-> c.n, text |-> <<"reply">>])
  /\ sending' = IF page = "chat" THEN FALSE ELSE sending
  /\ UNCHANGED <<messages, sent, input, inputText, isTyping, MsgFrame>>

\* ChatPage.send() after its await: the reply, or the catch's apology;
\* finally setSending(false)
SendDone(c, lost) ==
  /\ c \in BagToSet(chatCalls) /\ c.from = "chat"
  /\ Arrives(c.resp, lost)
  /\ chatCalls' = chatCalls (-) SetToBag({c})
  /\ msgs' = IF page # "chat" THEN msgs
             ELSE AppendMsg(msgs, [role |-> "ai", n |-> c.n,
                                   text |-> IF lost THEN <<"Sorry, I encountered an issue.">>
                                                    ELSE <<"reply">>])
  /\ sending' = IF page = "chat" THEN FALSE ELSE sending
  /\ UNCHANGED <<messages, sent, input, inputText, isTyping, MsgFrame>>

\* DashboardPage.handleSend up to its await, from the button or the Enter
\* key: returns at once if the trimmed inputText is empty, else submits
\* inputText as typed
HandleSend ==
  /\ page = "dashboard" /\ userInfo # NoUser
  /\ sent < MaxSends
  /\ sent' = sent + 1
  /\ IF Trim(inputText) = <<>>
       THEN UNCHANGED <<messages, inputText, isTyping, chatCalls>>
       ELSE /\ messages' = AppendMsg(messages, [type |-> "human", text |-> inputText,
                                                n |-> sent + 1])
            /\ inputText' = <<>>
            /\ isTyping' = TRUE
            /\ chatCalls' = chatCalls (+) SetToBag({ChatCall(sent + 1, "dashboard")})
  /\ UNCHANGED <<msgs, input, sending, MsgFrame>>

\* DashboardPage.handleSend after its await: the reply, or the catch's
\* apology; finally setIsTyping(false)
HandleSendDone(c, lost) ==
  /\ c \in BagToSet(chatCalls) /\ c.from = "dashboard"
  /\ Arrives(c.resp, lost)
  /\ chatCalls' = chatCalls (-) SetToBag({c})
  /\ messages' = IF page # "dashboard" THEN messages
                 ELSE AppendMsg(messages, [type |-> "ai", n |-> c.n,
                                           text |-> IF lost THEN <<"I'm sorry, I'm having trouble connecting.">>
                                                            ELSE <<"reply">>])
  /\ isTyping' = IF page = "dashboard" THEN FALSE ELSE isTyping
  /\ UNCHANGED <<msgs, sent, input, inputText, sending, MsgFrame>>

\* ----------------------------------------------------------- specification
NotifOrder == <<"n-1", "n-2">>
NotifIds == {NotifOrder[k] : k \in DOMAIN NotifOrder}

\* OnboardingPage as it is constructed without a company
ObConstructed ==
  /\ step = 0
  /\ companyId = NoCompany
  /\ obLoading = FALSE
  /\ policies = <<>>
  /\ databases = <<>>
  /\ provisionResult = "none"
  /\ obEpoch = 0
  /\ obCalls = EmptyBag

\* OnboardingPage of a stored hr user, once the calls of its effect on
\* [companyId] have delivered the company's policies and databases
ObLoaded ==
  /\ step = 1
  /\ companyId = CompanyOf([role |-> "hr"])
  /\ obLoading = FALSE
  /\ policies = RowsOf({r \in srvPolicies : r.company = companyId})
  /\ databases = RowsOf({r \in srvDatabases : r.company = companyId})
  /\ provisionResult = "none"
  /\ obEpoch = 0
  /\ obCalls = EmptyBag

\* every other component as it is constructed, every request pending at the
\* backend
InitState ==
  /\ activeTab = "chat"
  /\ apEpoch = 0
  /\ apLoading = TRUE
  /\ pendingRequests = <<>>
  /\ apFetches = {}
  /\ apDecides = {}
  /\ tab = "chat"
  /\ tabChanges = 0
  /\ requests = <<>>
  /\ notifications = <<>>
  /\ pendingApprovals = <<>>
  /\ cpFetches = EmptyBag
  /\ cpDecides = {}
  /\ cpMarks = {}
  /\ nextCall = 1
  /\ toasts = EmptyBag
  /\ srvReq = [i \in ReqIds |-> [status |-> "pending"]]
  /\ navs = 0
  /\ invoked = 0
  /\ loginLoading = FALSE
  /\ loginCalls = {}
  /\ srvCompanies = 1
  /\ srvNextId = 3
  /\ srvPolicies = {[company |-> "co-1", id |-> 1]}
  /\ srvDatabases = {[company |-> "co-1", id |-> 2]}
  /\ myRequests = <<>>
  /\ dashNotifications = <<>>
  /\ pollActive = FALSE
  /\ ticks = 0
  /\ dpFetches = EmptyBag
  /\ dpMarks = {}
  /\ messages = InitialMessages
  /\ msgs = <<>>
  /\ sent = 0
  /\ input = <<>>
  /\ inputText = <<>>
  /\ sending = FALSE
  /\ isTyping = FALSE
  /\ chatCalls = EmptyBag

\* the dashboard, opened by a stored user: its tabs and the approvals panel.
\* Its poll and its chat window run independently of the panel and are the
\* subject of SpecPoll and SpecChat, which start before the mount effect.
InitDashboard ==
  /\ page = "dashboard"
  /\ userInfo \in [role : SessionRoles]
  /\ user = NoUser
  /\ srvMine = {}
  /\ srvNotifs = <<>>

\* the chat page, behind Guard (a user is logged in), of a user who has
\* submitted no request and has no notification
InitChatRequests ==
  /\ page = "chat"
  /\ userInfo = NoUser
  /\ user \in [role : SessionRoles]
  /\ srvMine = {}
  /\ srvNotifs = <<>>

\* the chat page of a user who has unread notifications
InitChatNotifs ==
  /\ page = "chat"
  /\ userInfo = NoUser
  /\ user \in [role : SessionRoles]
  /\ srvMine = {}
  /\ srvNotifs = [k \in 1..Len(NotifOrder) |-> [id |-> NotifOrder[k], is_read |-> FALSE]]

NextBackend ==
  \/ \E id \in ReqIds : OtherActorDecides(id, "escalated")

NextDashboard ==
  \/ \E t \in {"chat", "approvals", "settings"} : SetActiveTab(t)
  \/ \E f \in apFetches : ServePending(f)
  \/ \E f \in apFetches, lost \in BOOLEAN : FetchApprovalsDone(f, lost)
  \/ \E id \in ReqIds, s \in Decisions : ApHandleDecision(id, s)
  \/ \E c \in apDecides : ServeDecide(c)
  \/ \E c \in apDecides, lost \in BOOLEAN : ApDecisionDone(c, lost)

\* the chat page's requests tab: the user moves between 'chat' and 'requests'
NextChatRequests ==
  \/ \E t \in {"chat", "requests"} : SetTab(t)
  \/ \E f \in BagToSet(cpFetches) : ServeList(f)
  \/ \E f \in BagToSet(cpFetches), lost \in BOOLEAN : GetMyRequestsDone(f, lost)
  \/ \E f \in BagToSet(cpFetches), lost \in BOOLEAN : GetPendingDone(f, lost)
  \/ \E id \in ReqIds, s \in Decisions : HandleDecision(id, s)
  \/ \E c \in cpDecides : CpServeDecide(c)
  \/ \E c \in cpDecides, lost \in BOOLEAN : DecisionDone(c, lost)

\* the chat page's notifications tab: the user moves between 'chat' and 'notifications'
NextChatNotifs ==
  \/ \E t \in {"chat", "notifications"} : SetTab(t)
  \/ \E f \in BagToSet(cpFetches) : ServeList(f)
  \/ \E f \in BagToSet(cpFetches), lost \in BOOLEAN : GetAllDone(f, lost)
  \/ \E id \in NotifIds : MarkReadClick(id)
  \/ \E m \in cpMarks : ServeMarkRead(m)
  \/ \E m \in cpMarks, lost \in BOOLEAN : MarkReadDone(m, lost)

\* approvals: the dashboard's panel and the chat page's requests tab
Init == InitState /\ ObConstructed /\ (InitDashboard \/ InitChatRequests)
Next == NextBackend \/ NextDashboard \/ NextChatRequests
Spec == Init /\ [][Next]_vars

\* the app opened at /login with no stored user
InitLogin ==
  /\ page = "login"
  /\ user = NoUser
  /\ userInfo = NoUser
  /\ srvMine = {}
  /\ srvNotifs = <<>>

\* navigation, login, and the list calls of the onboarding page's mount
NextRoutes ==
  \/ \E path \in Paths : GoTo(path)
  \/ RegisterLink
  \/ AdminButton
  \/ LogoutButton
  \/ BackToChat
  \/ \E r \in Roles : Submit(r)
  \/ \E c \in loginCalls : ServeLogin(c)
  \/ \E c \in loginCalls, lost \in BOOLEAN : LoginDone(c, lost)
  \/ \E c \in BagToSet(obCalls) : ServeCompany(c)
  \/ \E c \in BagToSet(obCalls), lost \in BOOLEAN : LoadDone(c, lost)

\* the handlers of the onboarding page
NextOnboarding ==
  \/ \E i \in 0..3 : SetStep(i)
  \/ GoToChatPortal
  \/ \E form \in RegForms : RegisterCompany(form)
  \/ \E c \in BagToSet(obCalls), lost \in BOOLEAN : RegisterDone(c, lost)
  \/ \E t \in {"text", "document"} : AddPolicy(t)
  \/ AddDatabase
  \/ \E c \in BagToSet(obCalls), lost \in BOOLEAN : AddDone(c, lost)
  \/ \E c \in BagToSet(obCalls), lost \in BOOLEAN : AfterAddDone(c, lost)
  \/ \E id \in 1..(srvNextId - 1) : DeletePolicy(id)
  \/ \E c \in BagToSet(obCalls), lost \in BOOLEAN : DeletePolicyDone(c, lost)
  \/ \E id \in 1..(srvNextId - 1) : ProvisionEmployees(id)
  \/ \E c \in BagToSet(obCalls), lost \in BOOLEAN : ProvisionDone(c, lost)

\* login and the routes: which page a user gets to
InitRoutes == InitState /\ ObConstructed /\ InitLogin
SpecLogin == InitRoutes /\ [][NextRoutes]_vars

\* login, the routes and the onboarding page
SpecRoutes == InitRoutes /\ [][NextRoutes \/ NextOnboarding]_vars

\* the onboarding flow: a visitor on the public /register page, or an hr user
\* on /onboarding
InitFlow ==
  /\ InitState
  /\ userInfo = NoUser
  /\ srvMine = {}
  /\ srvNotifs = <<>>
  /\ \/ page = "register" /\ user = NoUser /\ ObConstructed
     \/ page = "onboarding" /\ user = [role |-> "hr"] /\ ObLoaded

NextFlow ==
  \/ \E c \in BagToSet(obCalls) : ServeCompany(c)
  \/ \E c \in BagToSet(obCalls), lost \in BOOLEAN : LoadDone(c, lost)
  \/ \E i \in 0..3 : SetStep(i)
  \/ \E form \in RegForms : RegisterCompany(form)
  \/ \E c \in BagToSet(obCalls), lost \in BOOLEAN : RegisterDone(c, lost)
  \/ \E t \in {"text", "document"} : AddPolicy(t)
  \/ AddDatabase
  \/ \E c \in BagToSet(obCalls), lost \in BOOLEAN : AddDone(c, lost)
  \/ \E c \in BagToSet(obCalls), lost \in BOOLEAN : AfterAddDone(c, lost)
  \/ \E id \in 1..(srvNextId - 1) : DeletePolicy(id)
  \/ \E c \in BagToSet(obCalls), lost \in BOOLEAN : DeletePolicyDone(c, lost)
  \/ \E id \in 1..(srvNextId - 1) : ProvisionEmployees(id)
  \/ \E c \in BagToSet(obCalls), lost \in BOOLEAN : ProvisionDone(c, lost)

SpecFlow == InitFlow /\ [][NextFlow]_vars

\* the chat window of the chat page (behind Guard) or of the dashboard, each
\* as constructed, before its mount effect
InitChat ==
  /\ InitState /\ ObConstructed
  /\ srvMine = {}
  /\ srvNotifs = <<>>
  /\ userInfo = NoUser
  /\ \/ page = "chat" /\ user = [role |-> "employee"]
     \/ page = "dashboard" /\ user = NoUser

NextChat ==
  \/ ChatMountEffect
  \/ \E text \in Inputs : SetInput(text)
  \/ Send
  \/ \E c \in BagToSet(chatCalls) : ServeChat(c)
  \/ \E c \in BagToSet(chatCalls), lost \in BOOLEAN : SendDone(c, lost)
  \/ \E stored \in StoredUsers : MountEffect(stored)
  \/ \E text \in Inputs : SetInputText(text)
  \/ HandleSend
  \/ \E c \in BagToSet(chatCalls), lost \in BOOLEAN : HandleSendDone(c, lost)
  \/ HandleLogout

SpecChat == InitChat /\ [][NextChat]_vars

\* the chat windows when every chat call resolves or rejects in the end
SpecChatLive ==
  /\ SpecChat
  /\ WF_vars(\E c \in BagToSet(chatCalls), lost \in BOOLEAN : SendDone(c, lost))
  /\ WF_vars(\E c \in BagToSet(chatCalls), lost \in BOOLEAN : HandleSendDone(c, lost))

\* notifications of the chat page
InitNotifs == InitState /\ ObConstructed /\ InitChatNotifs
SpecNotifs == InitNotifs /\ [][NextChatNotifs]_vars

\* the dashboard as constructed, of a user with two unread notifications
InitMarks ==
  /\ InitState /\ ObConstructed
  /\ page = "dashboard"
  /\ userInfo = NoUser
  /\ user = NoUser
  /\ srvMine = {}
  /\ srvNotifs = [k \in 1..Len(NotifOrder) |-> [id |-> NotifOrder[k], is_read |-> FALSE]]

\* the dashboard's notifications while every call succeeds and between two
\* ticks of the poll: the marks, their follow-up refreshes, and the responses
\* in whatever order they arrive
NextMarks ==
  \/ \E stored \in {u \in StoredUsers : u.name = "Ravi"} : MountEffect(stored)
  \/ \E f \in BagToSet(dpFetches) : DpServeList(f)
  \/ \E f \in BagToSet(dpFetches) : FetchNotificationsDone(f, FALSE)
  \/ \E f \in BagToSet(dpFetches) : FetchMyRequestsDone(f, FALSE)
  \/ \E id \in NotifIds : MarkAsRead(id)
  \/ \E m \in dpMarks : DpServeMarkRead(m)
  \/ \E m \in dpMarks : MarkAsReadDone(m, FALSE)

SpecMarks == InitMarks /\ [][NextMarks]_vars

\* the dashboard as it is constructed, before its mount effect, of a user who
\* has submitted one request and has an unread notification
InitPoll ==
  /\ InitState /\ ObConstructed
  /\ page = "dashboard"
  /\ userInfo = NoUser
  /\ user = NoUser
  /\ srvMine = {ReqOrder[1]}
  /\ srvNotifs = <<[id |-> NotifOrder[1], is_read |-> FALSE]>>

\* the dashboard's mount effect, its poll, its notifications and its logout
NextPoll ==
  \/ MountWithoutUser
  \/ \E stored \in {u \in StoredUsers : u.name = "Ravi"} : MountEffect(stored)
  \/ PollTick
  \/ \E f \in BagToSet(dpFetches) : DpServeList(f)
  \/ \E f \in BagToSet(dpFetches), lost \in BOOLEAN : FetchNotificationsDone(f, lost)
  \/ \E f \in BagToSet(dpFetches), lost \in BOOLEAN : FetchMyRequestsDone(f, lost)
  \/ \E id \in NotifIds : MarkAsRead(id)
  \/ \E m \in dpMarks : DpServeMarkRead(m)
  \/ \E m \in dpMarks, lost \in BOOLEAN : MarkAsReadDone(m, lost)
  \/ HandleLogout
  \/ OtherActorDecides(ReqOrder[1], "escalated")

SpecPoll == InitPoll /\ [][NextPoll]_vars

\* ------------------------------------------------------------------ claims
\* the session user: the dashboard reads the stored user_info, the chat page
\* the AuthContext user
SessionUser == IF page = "dashboard" THEN userInfo ELSE user

\* the mounted instance of the approvals panel is the one that issued call c
Live(c) == apMounted /\ c.epoch = apEpoch

\* this step is the continuation of call c of the approvals panel, on the
\* failure path / on the success path
ApFailed(c) ==
  /\ c \in apDecides /\ c \notin apDecides'
  /\ CopiesIn(ApErrorToast(c), toasts') = CopiesIn(ApErrorToast(c), toasts) + 1

ApSucceeded(c) ==
  /\ c \in apDecides /\ c \notin apDecides'
  /\ CopiesIn(ApSuccessToast(c), toasts') = CopiesIn(ApSuccessToast(c), toasts) + 1

\* the same for a decide call of the chat page
CpFailed(c) ==
  /\ c \in cpDecides /\ c \notin cpDecides'
  /\ CopiesIn(CpErrorToast(c), toasts') = CopiesIn(CpErrorToast(c), toasts) + 1

CpSucceeded(c) ==
  /\ c \in cpDecides /\ c \notin cpDecides'
  /\ CopiesIn(CpSuccessToast(c), toasts') = CopiesIn(CpSuccessToast(c), toasts) + 1

\* the toasts a step emits
Emitted(t) == CopiesIn(t, toasts') > CopiesIn(t, toasts)

\* C1 -- Rollback correctness: when the decide call on a request R fails, then
\* once the failure handler has run the list's record for R is the one of the
\* snapshot taken before the optimistic removal: R is listed as pending again.
\* The chat page removes nothing before the response, and its failure handler
\* leaves the list as it is.
C1_RollbackRestoresRecord ==
  [][ /\ \A c \in apDecides : (ApFailed(c) /\ Live(c)) =>
            /\ Records(c.snap, c.id) = {[id |-> c.id, status |-> "pending"]}
            /\ Records(pendingRequests', c.id) = Records(c.snap, c.id)
      /\ \A c \in cpDecides : CpFailed(c) => pendingApprovals' = pendingApprovals
    ]_vars

\* a decision of the live approvals panel has failed and the list holds every
\* request again, none in flight
C1_Witness ==
  /\ page = "dashboard" /\ apMounted /\ ~apLoading
  /\ apDecides = {}
  /\ \E t \in BagToSet(toasts) : t.kind = "error" /\ t.call > 0
  /\ Ids(pendingRequests) = ReqIds

\* C2 -- Frame of the rollback: the failure handler of a decision on X leaves
\* the record of every other request Y of the pending list as it was
\* immediately before the rollback (Y is neither re-added nor removed).
C2_RollbackLeavesOthers ==
  [][ \A c \in apDecides : (ApFailed(c) /\ Live(c)) =>
        \A y \in ReqIds \ {c.id} :
           Records(pendingRequests', y) = Records(pendingRequests, y)
    ]_vars

\* C3 -- Commit path: once the success handler of a decision on X has run, X
\* is not in the pending view of the surface that decided it, and the
\* approvals panel's list is not changed on receipt of the success response.
C3_CommitLeavesDecided ==
  [][ /\ \A c \in apDecides : (ApSucceeded(c) /\ Live(c)) =>
            /\ c.id \notin Ids(pendingRequests')
            /\ pendingRequests' = pendingRequests
      /\ \A c \in cpDecides : CpSucceeded(c) => c.id \notin Ids(pendingApprovals')
    ]_vars

\* C4 -- Failure event: the error event emitted for a failed decide call carries
\* the failure reason the remote call reported (Conflict, or a network error).
FailureReasons == {"Conflict", "NetworkError"}

Carries(t, reason) == \E i \in DOMAIN t.text : t.text[i] = reason

C4_ErrorEventCarriesReason ==
  [][ \A t \in BagToSet(toasts') :
        (Emitted(t) /\ t.kind = "error" /\ t.call > 0) =>
           \E r \in FailureReasons : Carries(t, r)
    ]_vars

\* C5 -- Lock exclusion: while a decision on X is in flight, no step other than
\* the settling of a decide call (so no refresh of the list) alters the record
\* of X in the pending list of the surface that issued the decision.
C5_NoRefreshWhileInFlight ==
  [][ /\ (cpDecides' = cpDecides /\ tab' = tab) =>
            \A c \in cpDecides :
               Records(pendingApprovals', c.id) = Records(pendingApprovals, c.id)
      /\ (apDecides' = apDecides /\ activeTab' = activeTab) =>
            \A c \in apDecides : Live(c) =>
               Records(pendingRequests', c.id) = Records(pendingRequests, c.id)
    ]_vars

\* C6 -- AlreadyInProgress: at most one decide call per request id is in flight
\* at any time.
C6_OneDecidePerId ==
  /\ \A c1, c2 \in cpDecides : c1.id = c2.id => c1 = c2
  /\ \A c1, c2 \in apDecides : c1.id = c2.id => c1 = c2

\* C7 -- Capability gating: while the session user's role is employee no decide
\* call is issued (none is in flight, none has ever been invoked) and the
\* pending-approvals lists of both surfaces stay as constructed.
C7_EmployeeNeverDecides ==
  SessionUser.role = "employee" =>
    /\ cpDecides = {} /\ apDecides = {}
    /\ nextCall = 1
    /\ pendingApprovals = <<>> /\ pendingRequests = <<>>
    /\ ~apMounted

\* an employee is on the requests tab of the chat page, the tab's list call has
\* been answered, and the backend holds pending requests
C7_Witness ==
  /\ page = "chat" /\ user.role = "employee"
  /\ tab = "requests" /\ tabChanges > 0
  /\ cpFetches = EmptyBag
  /\ \E i \in ReqIds : srvReq[i].status = "pending"

\* C8 -- Role Gate table.  isAuthority and the dashboard's Approvals and
\* Settings tab checks hold exactly for the roles manager, hr, admin and ceo
\* (not for employee, not without a user); LoginPage.submit branches on the
\* narrower set hr, admin: a fresh login lands on the onboarding page for
\* these two roles and on the chat page for every other role.
AuthorityRoles == {"manager", "hr", "admin", "ceo"}

C8_RoleGates ==
  [][ /\ isAuthority(user') <=> user'.role \in AuthorityRoles
      /\ DashApprovalsTab(user') <=> user'.role \in AuthorityRoles
      /\ DashSettingsTab(user') <=> user'.role \in AuthorityRoles
      /\ (user = NoUser /\ user' # NoUser) =>
            /\ page' = "onboarding" <=> user'.role \in {"hr", "admin"}
            /\ page' = "chat" <=> user'.role \notin {"hr", "admin"}
    ]_vars

\* a manager or ceo has logged in and has been sent to the chat page
C8_Witness ==
  /\ page = "chat" /\ user.role \in {"manager", "ceo"}
  /\ navs = 0 /\ loginCalls = {}

\* C8 as stated -- every call site that branches on the role uses the same set
\* of roles: a fresh login is sent to the onboarding page exactly when
\* isAuthority holds for the user.
C8_SameRoleSetEverywhere ==
  [][ (user = NoUser /\ user' # NoUser) =>
         (page' = "onboarding" <=> isAuthority(user'))
    ]_vars

\* C9 -- No manage-company call (attach policy, delete policy, attach data
\* source, provision employees) is ever issued by a user whose role is employee.
ManageCompanyOps == {"addPolicy", "deletePolicy", "addDatabase", "provision"}

C9_EmployeeNoManageCall ==
  \A c \in BagToSet(obCalls) : c.op \in ManageCompanyOps => c.by # "employee"

\* C10 -- Read-state is monotone: a notification that the list shows as read is
\* not shown as unread after any step.
ReadIds(list) == Ids(list) \ Unread(list)

C10_ReadNeverReverts ==
  [][ ReadIds(notifications) \cap Unread(notifications') = {} ]_vars

\* the ids a request list shows with one of the given statuses
Shown(list, S) == {list[i].id : i \in {j \in 1..Len(list) : list[j].status \in S}}

\* C11: a request the dashboard's cache shows as approved, rejected or
\* escalated is never shown as pending afterwards, whatever the order in
\* which the responses of the refreshes arrive
C11_StatusNeverBackToPending ==
  [][Shown(myRequests, Statuses \ {"pending"}) \cap Shown(myRequests', {"pending"}) = {}]_vars

\* C12: marking a notification read a second time, after the first call has
\* succeeded, leaves the cache as the first call left it: a click on a
\* notification the cache shows as read issues no call, and the success of a
\* second call for a notification already read changes nothing
C12_SecondMarkReadChangesNothing ==
  [][\A m \in cpMarks \cup cpMarks' :
       /\ m.call \notin {n.call : n \in cpMarks} => m.id \in Unread(notifications)
       /\ (m.call \notin {n.call : n \in cpMarks'} /\ m.id \in ReadIds(notifications))
            => notifications' = notifications]_vars

\* the second call for a notification has been answered while the cache
\* already shows the notification as read
C12_Witness ==
  \E m \in cpMarks : m.resp = "ok" /\ m.id \in ReadIds(notifications)

OneRecordPerId(list) ==
  \A i, j \in 1..Len(list) : list[i].id = list[j].id => i = j

DpFailed(f) ==
  /\ f.resp.kind = "none"
  /\ CopiesIn(f, dpFetches') < CopiesIn(f, dpFetches)
  /\ BagCardinality(dpFetches') < BagCardinality(dpFetches)

\* C14: a refresh of the dashboard that fails leaves both caches as they were
\* and the poll running; while the dashboard is mounted the interval exists,
\* and every tick issues both refreshes again
C14_FailedRefreshKeepsCacheAndPoll ==
  [][/\ \A f \in BagToSet(dpFetches) : DpFailed(f) =>
          /\ myRequests' = myRequests
          /\ dashNotifications' = dashNotifications
          /\ pollActive' = pollActive
     /\ (page = "dashboard" /\ userInfo # NoUser) => pollActive
     /\ ticks' # ticks => dpFetches' = dpFetches (+) SetToBag(RefreshCalls)]_vars

\* every fetchMyRequests so far, the one of a tick included, has failed: the
\* list is still the empty one, and the interval exists
C14_Witness ==
  /\ page = "dashboard" /\ pollActive /\ ticks >= 1
  /\ dpFetches = EmptyBag
  /\ myRequests = <<>> /\ dashNotifications # <<>>

\* C15: the poll's interval exists only while the dashboard is mounted, and
\* the interval fires only then: after the unmount no tick issues a refresh
C15_TicksOnlyWhileMounted ==
  [][/\ pollActive => page = "dashboard"
     /\ ticks' # ticks => (page = "dashboard" /\ pollActive)
     /\ page # "dashboard" => (ticks' = ticks /\ ~pollActive')]_vars

\* the dashboard was mounted, its interval fired once, and the user has
\* logged out: the interval is gone
C15_Witness ==
  /\ page = "login" /\ userInfo # NoUser
  /\ ticks = 1 /\ ~pollActive

\* the calls of the steps that follow the register step
AttachOps == {"addPolicy", "addDatabase", "provision"}

\* the calls a step issues
Issued(c) == CopiesIn(c, obCalls') > CopiesIn(c, obCalls) /\ c.resp = NoResp

\* this step is the failure path of register call c
RegisterFailed(c) ==
  /\ c.op = "register"
  /\ CopiesIn(c, obCalls') < CopiesIn(c, obCalls)
  /\ toasts' = toasts (+) SetToBag({Toast("error", "Registration failed")})

\* a register call of the flow has failed and none has succeeded
OnlyFailedRegisters ==
  /\ page \in ObPages
  /\ BagIn(Toast("error", "Registration failed"), toasts)
  /\ ~BagIn(Toast("success", "Company registered!"), toasts)

\* C16: in a flow entered without a company (a visitor who is not logged
\* in), a register call that fails leaves the flow at the register step with
\* no companyId and records only its own failure, and until a register call
\* succeeds no attach data source, attach policy or provision call is issued
C16_FailedRegisterStopsVisitorFlow ==
  [][(page \in ObPages /\ CompanyOf(user) = NoCompany) =>
       /\ \A c \in BagToSet(obCalls) : RegisterFailed(c) =>
            (step' = step /\ companyId' = companyId)
       /\ OnlyFailedRegisters =>
            /\ step = 0 /\ companyId = NoCompany
            /\ \A c \in BagToSet(obCalls') : Issued(c) => c.op \notin AttachOps]_vars

\* the visitor's register call has failed: the page is at the register step
\* with no companyId and nothing in flight
C16_Witness ==
  /\ page = "register" /\ user = NoUser
  /\ OnlyFailedRegisters
  /\ step = 0 /\ companyId = NoCompany /\ obCalls = EmptyBag

\* C16 as stated, for every entry to the flow: once a register call has
\* failed (and none has succeeded) no attach or provision call is issued
C16_FailedRegisterStopsEveryFlow ==
  [][OnlyFailedRegisters =>
       \A c \in BagToSet(obCalls') : Issued(c) => c.op \notin AttachOps]_vars

\* this step is the failure path of addPolicy, at its first or second await
PolicyFailed(c) ==
  /\ c.op \in {"addPolicy", "getPolicies"} /\ c.kind # "load"
  /\ CopiesIn(c, obCalls') < CopiesIn(c, obCalls)
  /\ toasts' = toasts (+) SetToBag({Toast("error", "Failed to add policy")})

\* C17: a failing attach policy call (text or document) changes neither the
\* companyId nor the known data sources and ends the handler's loading
\* state; after it the database step can still be opened and provision
\* employees can still be issued for every known data source
C17_PolicyFailureLeavesProvisionOpen ==
  [][/\ \A c \in BagToSet(obCalls) : PolicyFailed(c) =>
          /\ companyId' = companyId
          /\ databases' = databases
          /\ ObLive(c) => ~obLoading'
     /\ ( /\ page \in ObPages /\ companyId # NoCompany
          /\ BagIn(Toast("error", "Failed to add policy"), toasts)
          /\ invoked < MaxInvocations ) =>
          /\ step # 2 => ENABLED SetStep(2)
          /\ step = 2 => \A id \in Ids(databases) : ENABLED ProvisionEmployees(id)]_vars

\* attach policy has failed, and a provision call for a known data source of
\* the company is in flight
C17_Witness ==
  /\ page \in ObPages /\ companyId # NoCompany
  /\ BagIn(Toast("error", "Failed to add policy"), toasts)
  /\ \E c \in BagToSet(obCalls) :
       c.op = "provision" /\ c.company = companyId /\ c.arg \in Ids(databases)

\* the attach data source step of the flow has not been attempted
NoAttachAttempted ==
  /\ \A c \in BagToSet(obCalls) : c.op # "addDatabase" /\ c.kind # "afterAdd"
  /\ ~BagIn(Toast("success", "Database connected & schema analyzed!"), toasts)
  /\ ~BagIn(Toast("error", "Failed"), toasts)

\* C18: a provision employees call is issued only for the page's company and
\* with the id of a data source the page lists (attached in this flow, or
\* loaded by the effect on [companyId]); in a visitor's flow in which attach
\* data source has not been attempted, no data source is known and no
\* provision call is issued, whether or not the company is registered
C18_ProvisionOnlyForListedDataSource ==
  [][/\ \A c \in BagToSet(obCalls') : (Issued(c) /\ c.op = "provision") =>
          /\ c.arg \in Ids(databases)
          /\ c.company = companyId /\ companyId # NoCompany
     /\ (page \in ObPages /\ CompanyOf(user) = NoCompany /\ NoAttachAttempted) =>
          /\ databases = <<>>
          /\ provisionResult = "none"
          /\ \A c \in BagToSet(obCalls') : c.op # "provision"]_vars

\* a visitor has registered the company and opened the database step without
\* attaching a data source or a policy: companyId is set, no data source is
\* known, nothing is in flight
C18_Witness ==
  /\ page = "register" /\ user = NoUser
  /\ companyId # NoCompany /\ step = 2
  /\ NoAttachAttempted /\ obCalls = EmptyBag
  /\ databases = <<>> /\ policies = <<>>
  /\ ~BagIn(Toast("success", "Policy added!"), toasts)

\* C18 as stated: a provision call is issued only after the attach data
\* source step of this flow has produced a data source
C18_ProvisionOnlyAfterAttachInFlow ==
  [][\A c \in BagToSet(obCalls') : (Issued(c) /\ c.op = "provision") =>
       BagIn(Toast("success", "Database connected & schema analyzed!"), toasts)]_vars

\* the submissions of the user's messages of a list, in list order
UserNs(list, who(_)) ==
  LET mine == SelectSeq(list, LAMBDA m : who(m))
  IN [i \in 1..Len(mine) |-> mine[i].n]

IsUserMsg(m) == m.role = "user"
IsHumanMsg(m) == m.type = "human"

\* the position of the user's message of submission k in a list that holds it
PosOf(list, who(_), k) == CHOOSE i \in 1..Len(list) : who(list[i]) /\ list[i].n = k

Increasing(ns) == \A i, j \in 1..Len(ns) : i < j => ns[i] < ns[j]

\* C19: while the page is mounted the user's message of every chat call in
\* flight is already in the list, the user's messages are in the order of
\* their submission whatever the order of the replies, and every reply is
\* behind the message it answers
C19_UserMessagesInSubmissionOrder ==
  /\ page = "chat" =>
       /\ \A c \in BagToSet(chatCalls) : c.n \in {m.n : m \in {msgs[i] : i \in 1..Len(msgs)}}
       /\ Increasing(UserNs(msgs, IsUserMsg))
       /\ \A i \in 1..Len(msgs) :
            msgs[i].role = "ai" => PosOf(msgs, IsUserMsg, msgs[i].n) < i
  /\ page = "dashboard" =>
       /\ \A c \in BagToSet(chatCalls) :
            c.n \in {m.n : m \in {messages[i] : i \in 1..Len(messages)}}
       /\ Increasing(UserNs(messages, IsHumanMsg))
       /\ \A i \in 1..Len(messages) :
            (messages[i].type = "ai" /\ messages[i].n > 0) =>
               PosOf(messages, IsHumanMsg, messages[i].n) < i

\* two messages were submitted and the reply to the second arrived before
\* the reply to the first
C19_Witness ==
  /\ page = "chat"
  /\ \E i, j \in 1..Len(msgs) :
       /\ i < j
       /\ msgs[i].role = "ai" /\ msgs[j].role = "ai"
       /\ msgs[i].n > msgs[j].n /\ msgs[j].n > 0

IsPrefix(old, new) ==
  /\ Len(old) <= Len(new)
  /\ \A i \in 1..Len(old) : new[i] = old[i]

\* C20: the message lists are append-only: every step keeps the messages a
\* list holds, unchanged and in place, and adds new ones at the end
C20_MessagesAppendOnly ==
  [][IsPrefix(msgs, msgs') /\ IsPrefix(messages, messages')]_vars

\* the decide calls a step issues
NewCalls(before, after) == {c \in after : c.call \notin {b.call : b \in before}}

C22_PendingViewExcludesInFlight ==
  /\ \A c \in apDecides : Live(c) => c.id \notin Ids(pendingRequests)
  /\ \A c \in cpDecides : c.id \notin Ids(pendingApprovals)

\* a text with nothing but blanks in it
Blank(s) == \A i \in 1..Len(s) : s[i] = " "

\* C23: a send invoked while the text box is empty or holds only blanks
\* appends no message, issues no call and leaves the text box, and everything
\* else, as it was
C23_BlankSendChangesNothing ==
  [][/\ (page = "chat" /\ sent' = sent + 1 /\ Blank(input)) =>
          UNCHANGED <<msgs, messages, input, inputText, sending, isTyping, chatCalls,
                      MsgFrame>>
     /\ (page = "dashboard" /\ sent' = sent + 1 /\ Blank(inputText)) =>
          UNCHANGED <<msgs, messages, input, inputText, sending, isTyping, chatCalls,
                      MsgFrame>>]_vars

\* send has been invoked on a text box holding one blank: the list holds
\* nothing but the mount effect's message and its reply
C23_Witness ==
  /\ page = "chat" /\ sent = 1 /\ input = <<" ">>
  /\ msgs # <<>> /\ \A i \in 1..Len(msgs) : msgs[i].n = 0
  /\ chatCalls = EmptyBag

\* C24: a register call is issued only with the required fields (company
\* name, HR name, HR email) filled in; a submit without them fails locally
C24_RegisterOnlyWithRequiredFields ==
  [][\A c \in BagToSet(obCalls') :
        (Issued(c) /\ c.op = "register") => c.form = RequiredFields]_vars

\* C25: in the onboarding flow, entered as a visitor or as a logged-in
\* authority, an attach-policy, attach-data-source or provision call is
\* issued only while companyId is set, and names that company
C25_AttachCallsOnlyWithCompany ==
  [][\A c \in BagToSet(obCalls') :
        (Issued(c) /\ c.op \in AttachOps) =>
           companyId # NoCompany /\ c.company = companyId]_vars

\* a visitor has registered and attaches a data source to the new company
C25_Witness ==
  /\ page = "register" /\ user = NoUser /\ companyId # NoCompany
  /\ \E c \in BagToSet(obCalls) :
       c.op = "addDatabase" /\ c.resp = NoResp /\ c.company = companyId

\* this step completes addDatabase's handler after its attach call succeeded
AttachSucceededAndDone(c) ==
  /\ c.kind = "afterAdd" /\ c.op = "getDatabases" /\ ObLive(c)
  /\ CopiesIn(c, obCalls') < CopiesIn(c, obCalls)
  /\ BagCardinality(obCalls') < BagCardinality(obCalls)

\* C26: whenever the attach-data-source call succeeds, the handler ends with
\* the new data source listed (its Provision button available) and without
\* an error: an error is surfaced for this step only if the attach call
\* itself failed
C26_AttachSuccessCapturesSource ==
  [][\A c \in BagToSet(obCalls) : AttachSucceededAndDone(c) =>
        /\ {r.id : r \in {x \in srvDatabases : x.company = c.company}}
              \subseteq Ids(databases')
        /\ \A t \in BagToSet(toasts') :
              t.kind = "error" => CopiesIn(t, toasts') = CopiesIn(t, toasts)]_vars

\* this step is the success path of register call c
RegisterSucceeded(c) ==
  /\ c.op = "register" /\ c.resp.kind = "ok"
  /\ CopiesIn(c, obCalls') < CopiesIn(c, obCalls)
  /\ CopiesIn(Toast("success", "Company registered!"), toasts') >
       CopiesIn(Toast("success", "Company registered!"), toasts)

\* C27: when a register call succeeds the id it returned becomes companyId
\* and the flow moves to the next step; no other step (attaching a policy or
\* a data source, provisioning, the step indicator, the list loads) changes
\* companyId
C27_CompanyIdOnlyFromRegister ==
  [][/\ \A c \in BagToSet(obCalls) : (RegisterSucceeded(c) /\ ObLive(c)) =>
          companyId' = c.registered /\ c.registered # NoCompany /\ step' = 1
     /\ companyId' # companyId =>
          \E c \in BagToSet(obCalls) : RegisterSucceeded(c) /\ companyId' = c.registered]_vars

\* a visitor has registered a company, attached a policy to it and moved on
\* to the data-source step
C27_Witness ==
  /\ page = "register" /\ user = NoUser
  /\ companyId = CompanyOrder[2] /\ step = 2
  /\ policies # <<>> /\ obCalls = EmptyBag

\* C28: marking a notification whose cached record is already read does
\* nothing: a mark-read call is issued only for a notification that the
\* cache of the surface holds as unread, and issuing it changes no cache
C28_NoMarkReadCallForReadNotification ==
  [][/\ \A m \in NewCalls(dpMarks, dpMarks') : m.id \in Unread(dashNotifications)
     /\ \A m \in NewCalls(cpMarks, cpMarks') : m.id \in Unread(notifications)
     /\ (NewCalls(dpMarks, dpMarks') # {} \/ NewCalls(cpMarks, cpMarks') # {}) =>
          UNCHANGED <<dashNotifications, notifications>>]_vars

\* the dashboard's list holds a notification as read, after a mark-read and
\* its refresh, with a call still allowed: a click on it is possible
C28_Witness ==
  /\ page = "dashboard" /\ pollActive
  /\ dashNotifications # <<>> /\ Unread(dashNotifications) = {}
  /\ dpMarks = {} /\ nextCall <= MaxCalls

\* this step ends mark-read call m, which the backend never served: a failure
MarkFailed(m, after) == m.resp = "none" /\ m.call \notin {x.call : x \in after}

\* C29: when a mark-read call fails, the failure handler leaves the cached
\* list as it was (the notification is still shown unread) and the surface
\* goes on as before: same page, same tab, the poll still running, no
\* refresh issued and nothing reported
C29_FailedMarkReadKeepsCache ==
  [][/\ \A m \in cpMarks : MarkFailed(m, cpMarks') =>
          /\ notifications' = notifications
          /\ page' = page /\ tab' = tab /\ cpFetches' = cpFetches /\ toasts' = toasts
     /\ \A m \in dpMarks : MarkFailed(m, dpMarks') =>
          /\ dashNotifications' = dashNotifications
          /\ page' = page /\ pollActive' = pollActive /\ dpFetches' = dpFetches
          /\ toasts' = toasts]_vars

\* on the chat page a mark-read call was issued and is gone, the backend
\* never saw it, and the cache still shows the notification as unread
C29_Witness ==
  /\ page = "chat" /\ tab = "notifications"
  /\ nextCall = 2 /\ cpMarks = {}
  /\ \A i \in 1..Len(srvNotifs) : ~srvNotifs[i].is_read
  /\ notifications # <<>> /\ Unread(notifications) = Ids(notifications)

\* C30: marking two unread notifications in either order ends, once every
\* response and every follow-up refresh has been delivered, in the one cache
\* state that shows both as read
C30_MarkOrderIrrelevant ==
  (/\ page = "dashboard" /\ pollActive
   /\ dpMarks = {} /\ dpFetches = EmptyBag
   /\ \A i \in 1..Len(srvNotifs) : srvNotifs[i].is_read)
  => /\ Ids(dashNotifications) = NotifIds
     /\ Unread(dashNotifications) = {}

OtherKind(k) == IF k = "notifs" THEN "mine" ELSE "notifs"

\* the cache a refresh of kind k fills
CacheOf(k) == IF k = "notifs" THEN dashNotifications ELSE myRequests

\* C31: the two refreshes of the dashboard are independent. Every tick of the
\* poll issues one notifications refresh and one requests refresh, whatever
\* became of the earlier ones; the failure of a refresh leaves the other
\* kind's cache as it was and every refresh of the other kind in flight
C31_RefreshesIndependent ==
  [][/\ ticks' # ticks =>
          \A k \in {"notifs", "mine"} :
             CopiesIn([kind |-> k, resp |-> NoResp], dpFetches') =
               CopiesIn([kind |-> k, resp |-> NoResp], dpFetches) + 1
     /\ \A f \in BagToSet(dpFetches) : DpFailed(f) =>
          /\ CacheOf(OtherKind(f.kind))' = CacheOf(OtherKind(f.kind))
          /\ \A g \in BagToSet(dpFetches) :
                g.kind = OtherKind(f.kind) => CopiesIn(g, dpFetches') = CopiesIn(g, dpFetches)]_vars

\* no notifications refresh has succeeded, the one of a tick included, while
\* the requests refreshes have filled their cache and one is still in flight
C31_Witness ==
  /\ page = "dashboard" /\ pollActive /\ ticks >= 1
  /\ dashNotifications = <<>> /\ myRequests # <<>>
  /\ \A g \in BagToSet(dpFetches) : g.kind = "mine"
  /\ dpFetches # EmptyBag

\* the decide call the approvals panel issued for x has succeeded: the
\* backend holds the decision, no call for x is in flight and no call has
\* failed so far
Committed(x) ==
  /\ srvReq[x].status \in Decisions
  /\ \A c \in apDecides : c.id # x
  /\ \A t \in BagToSet(toasts) : t.kind # "error"

\* C32: a committed decision is durable in the panel's view. Once the decide
\* call for X has succeeded, no step other than a refresh of the list (no
\* rollback of another decision in particular) brings X back into the
\* pending list
C32_CommittedStaysOut ==
  [][(apFetches' = apFetches /\ activeTab' = activeTab) =>
        \A x \in ReqIds :
           (Committed(x) /\ x \notin Ids(pendingRequests)) =>
              x \notin Ids(pendingRequests')]_vars

\* the positions of the messages of submission k in a list, by author
UserAt(k) == {i \in 1..Len(msgs) : msgs[i].role = "user" /\ msgs[i].n = k}
AiAt(k) == {i \in 1..Len(msgs) : msgs[i].role = "ai" /\ msgs[i].n = k}
HumanAt(k) == {i \in 1..Len(messages) : messages[i].type = "human" /\ messages[i].n = k}
AgentAt(k) == {i \in 1..Len(messages) : messages[i].type = "ai" /\ messages[i].n = k}

\* submission k has its one assistant message, behind the user's message
SettledChat(k) ==
  /\ Cardinality(UserAt(k)) = 1 /\ Cardinality(AiAt(k)) = 1
  /\ \A i \in UserAt(k), j \in AiAt(k) : i < j

SettledDashboard(k) ==
  /\ Cardinality(HumanAt(k)) = 1 /\ Cardinality(AgentAt(k)) = 1
  /\ \A i \in HumanAt(k), j \in AgentAt(k) : i < j

\* C33: every chat send settles with exactly one assistant message. While
\* the page is mounted, a submitted message never has more than one assistant
\* message and none while its call is in flight; once the call resolves or
\* rejects, exactly one (the reply or the apology) stands behind it; and no
\* step, a failure included, removes the user's message
C33_EverySendSettlesOnce ==
  /\ [](page = "chat" =>
          \A k \in 0..MaxSends :
             /\ Cardinality(AiAt(k)) <= 1
             /\ (\E c \in BagToSet(chatCalls) : c.n = k) => AiAt(k) = {})
  /\ [](page = "dashboard" =>
          \A k \in 1..MaxSends :
             /\ Cardinality(AgentAt(k)) <= 1
             /\ (\E c \in BagToSet(chatCalls) : c.n = k) => AgentAt(k) = {})
  /\ \A k \in 0..MaxSends :
       (page = "chat" /\ UserAt(k) # {}) ~> SettledChat(k)
  /\ \A k \in 1..MaxSends :
       (page = "dashboard" /\ HumanAt(k) # {}) ~> (page # "dashboard" \/ SettledDashboard(k))
  /\ [][\A k \in 0..MaxSends :
          /\ UserAt(k) # {} => UserAt(k)' # {}
          /\ HumanAt(k) # {} => HumanAt(k)' # {}]_vars

\* on the chat page a typed message was answered by the apology of a failed
\* call, and nothing is in flight
C33_Witness ==
  /\ page = "chat" /\ chatCalls = EmptyBag
  /\ \E k \in 1..MaxSends :
       /\ SettledChat(k)
       /\ \A j \in AiAt(k) : msgs[j].text = <<"Sorry, I encountered an issue.">>

\* C34: the busy flag of a chat window is true exactly while at least one of
\* its chat calls is in flight, overlapping sends included
C34_BusyIffInFlight ==
  /\ page = "chat" =>
       (sending <=> \E c \in BagToSet(chatCalls) : c.from = "chat")
  /\ (page = "dashboard" /\ userInfo # NoUser) =>
       (isTyping <=> \E c \in BagToSet(chatCalls) : c.from = "dashboard")

\* the handlers of the mounted page that set loading and are still awaiting:
\* one call record per running handler (an addPolicy / addDatabase handler
\* awaits its attach call, then its list call)
LoadingHandlers ==
  {c \in BagToSet(obCalls) :
     /\ ObLive(c)
     /\ \/ c.op \in {"register", "addPolicy", "addDatabase", "provision"}
        \/ c.kind = "afterAdd"}

\* C35: the onboarding page's loading flag is true exactly while at least
\* one of register, attach policy, attach data source or provision is in
\* flight, also when a provision call overlaps another operation
C35_LoadingIffInFlight ==
  page \in ObPages => (obLoading <=> LoadingHandlers # {})
====
